---------------------------- MODULE Spec2Model ----------------------------
(***************************************************************************)
(* Resumable transcription pipeline of quercusilvam/whisper:               *)
(* the checkpoint ledger (whisperProgressLogger.py), the encrypted remote  *)
(* transfer (whisperAWSHelper.py, whisperCryptoHelper.py) and the driver   *)
(* loop generate_transcript (whisper.py).                                  *)
(*                                                                         *)
(* A path is a sequence of components; a component (a file or directory    *)
(* name) is the sequence of its dot-separated parts, so 'output/d1.txt' is *)
(* << <<"output">>, <<"d1","txt">> >>.  The empty sequence stands for the  *)
(* current directory and for an absent (None) directory argument.  Only    *)
(* relative paths without '..' are modelled.                               *)
(***************************************************************************)
EXTENDS Integers, Sequences, FiniteSets, TLC

(***************************************************************************)
(* Bounds of the model.                                                    *)
(***************************************************************************)
MaxRuns == 3
MaxUnits == 2
MaxCalls == 7
MaxIndex == 1
MaxLength == 1
MaxAudio == 4

(***************************************************************************)
(* The datasets of the model and their units.  DatasetOrder is the order   *)
(* in which the listing (os.scandir or the bucket listing) yields them.    *)
(***************************************************************************)
DatasetOrder == <<"d1", "d2">>
DatasetNames == {DatasetOrder[x] : x \in 1..Len(DatasetOrder)}
NumUnits(d) == IF d = "d1" THEN MaxUnits ELSE 1
UnitLen(d, i) == i + 1

(***************************************************************************)
(* Program constants.                                                      *)
(***************************************************************************)
INPUT_DIR == << <<"audio_chunks">> >>
DS_DIR == << <<"ds">> >>
OUTPUT_DIR == << <<"output">> >>
TRANSCRIPTION_FILE_FORMAT == "txt"
progress_filename == << <<"progress", "json">> >>
zip_file_extension == <<"zip">>
crypt_file_extension == <<"crypt">>
json_last_processed_chunk_new_entry == -1
json_total_processed_length_new_entry == 0

NoDir == <<>>

(***************************************************************************)
(* pathlib / os.path on the path representation.                           *)
(***************************************************************************)
PathParent(p) == IF Len(p) = 0 THEN <<>> ELSE SubSeq(p, 1, Len(p) - 1)
PathName(p) == IF Len(p) = 0 THEN <<>> ELSE p[Len(p)]
\* Path(x).parent.name != ''
ParentHasName(p) == Len(p) >= 2
\* PurePath.stem of a name: cut the last suffix, unless the only dot leads
\* the name or the name ends with a dot.
NameStem(n) ==
    IF Len(n) >= 2 /\ n[Len(n)] # "" /\ ~(Len(n) = 2 /\ n[1] = "")
    THEN SubSeq(n, 1, Len(n) - 1)
    ELSE n
PathStem(p) == NameStem(PathName(p))
\* os.path.join(dir, name) for a relative name
PathJoin(dir, p) == dir \o p
\* string concatenation of a suffix such as '.zip' to a path
AddSuffix(p, ext) ==
    IF Len(p) = 0 THEN << <<"">> \o ext >>
    ELSE SubSeq(p, 1, Len(p) - 1) \o << p[Len(p)] \o ext >>
IsPrefix(p, q) == Len(p) < Len(q) /\ SubSeq(q, 1, Len(p)) = p

(***************************************************************************)
(* Local storage: a function from the paths that exist to their content.   *)
(* A saved dataset (the directory and the files save_to_disk puts in it)   *)
(* is one entry of kind "dir" that carries the dataset; a directory as     *)
(* such is an entry of kind "dir" that carries none, or is implied by the  *)
(* paths below it.                                                         *)
(***************************************************************************)
JsonFile(doc) ==
    [kind |-> "json", doc |-> doc, lines |-> <<>>, ds |-> "", crypt |-> FALSE, members |-> <<>>,
     intact |-> TRUE]
TextFile(lines) ==
    [kind |-> "text", doc |-> <<>>, lines |-> lines, ds |-> "", crypt |-> FALSE, members |-> <<>>,
     intact |-> TRUE]
DatasetDir(d) ==
    [kind |-> "dir", doc |-> <<>>, lines |-> <<>>, ds |-> d, crypt |-> FALSE, members |-> <<>>,
     intact |-> TRUE]
Directory ==
    [kind |-> "dir", doc |-> <<>>, lines |-> <<>>, ds |-> "", crypt |-> FALSE, members |-> <<>>,
     intact |-> TRUE]
\* an archive: the members of a zip file, encrypted (crypt) or not; intact:
\* an encrypted one is a token of the key in CRYPT_KEY_FILE
ArchiveFile(members, crypt) ==
    [kind |-> "archive", doc |-> <<>>, lines |-> <<>>, ds |-> "", crypt |-> crypt, members |-> members,
     intact |-> TRUE]
\* an archive encrypted with a different key, or damaged after encryption
ForeignArchive(members) == [ArchiveFile(members, TRUE) EXCEPT !.intact = FALSE]

EmptyFs == [p \in {} |-> JsonFile(<<>>)]
FsPut(f, p, c) == [q \in (DOMAIN f) \cup {p} |-> IF q = p THEN c ELSE f[q]]
FsDel(f, p) == [q \in (DOMAIN f) \ {p} |-> f[q]]
FsExists(f, p) == p \in DOMAIN f
isfile(f, p) == p \in DOMAIN f /\ f[p].kind # "dir"
isdir(f, p) ==
    \/ Len(p) = 0
    \/ p \in DOMAIN f /\ f[p].kind = "dir"
    \/ \E q \in DOMAIN f : IsPrefix(p, q)


(***************************************************************************)
(* WhisperCryptoHelper                                                     *)
(***************************************************************************)
\* _zip: the path of the zip file it creates
zip_path(f, path, dest_dir) ==
    LET zipname == IF isfile(f, path)
                   THEN PathStem(path) \o zip_file_extension
                   ELSE PathName(path) \o zip_file_extension
    IN  IF dest_dir # NoDir THEN PathJoin(dest_dir, <<zipname>>) ELSE <<zipname>>

\* _zip: for root, dirs, files in os.walk(path): the files at and below a
\* directory (a directory as such is not among them)
walk_files(f, path) ==
    {q \in DOMAIN f : (q = path \/ IsPrefix(path, q))
                        /\ (f[q].kind # "dir" \/ f[q].ds # "")}

\* _zip: the members written for the files of a directory, named relative
\* to the parent of the directory
RECURSIVE walk_members(_, _, _)
walk_members(f, path, files) ==
    IF files = {} THEN <<>>
    ELSE LET q == CHOOSE x \in files : TRUE
         IN  << [arc |-> SubSeq(q, Len(path), Len(q)), data |-> f[q]] >>
               \o walk_members(f, path, files \ {q})

\* _zip: the members it stores; a file under the path it was given, a
\* directory relative to its parent
zip_members(f, path) ==
    IF isfile(f, path) THEN << [arc |-> path, data |-> f[path]] >>
    ELSE IF isdir(f, path) THEN walk_members(f, path, walk_files(f, path))
    ELSE <<>>

\* _unzip: extractall(dest_dir)
RECURSIVE unzip(_, _, _)
unzip(f, members, dest_dir) ==
    IF members = <<>> THEN f
    ELSE unzip(FsPut(f, PathJoin(dest_dir, Head(members).arc), Head(members).data),
               Tail(members), dest_dir)

\* _unzip: the returned member paths
unzip_result(members, dest_dir) ==
    [x \in 1..Len(members) |-> PathJoin(dest_dir, members[x].arc)]

\* encrypt_and_zip: the path of the encrypted archive it returns
encrypt_and_zip_path(f, path, dst_dir) ==
    AddSuffix(zip_path(f, path, dst_dir), crypt_file_extension)

\* encrypt_and_zip: local storage afterwards (the zip is unlinked, the
\* encrypted archive stays)
encrypt_and_zip(f, path, dst_dir) ==
    LET zippath == zip_path(f, path, dst_dir)
        zipped  == FsPut(f, zippath, ArchiveFile(zip_members(f, path), FALSE))
        crypted == FsPut(zipped, encrypt_and_zip_path(f, path, dst_dir),
                         ArchiveFile(zipped[zippath].members, TRUE))
    IN  FsDel(crypted, zippath)

\* a decryption that verifies nothing
fernet_decrypt_unverified(file) == file.kind # "archive"

\* fernet.decrypt raises InvalidToken: the content is no token of the key
fernet_decrypt_raises(file) == ~(file.kind = "archive" /\ file.crypt /\ file.intact)

\* decrypt_and_unzip: local storage afterwards (the decrypted zip is written
\* to the current directory under the stem of the archive name, extracted
\* and unlinked; nothing is written when fernet.decrypt raises)
decrypt_and_unzip(f, filepath, dst_dir) ==
    LET decrypt_filepath == <<PathStem(filepath)>>
        decrypted == FsPut(f, decrypt_filepath, ArchiveFile(f[filepath].members, FALSE))
        extracted == unzip(decrypted, decrypted[decrypt_filepath].members, dst_dir)
    IN  IF fernet_decrypt_raises(f[filepath]) THEN f
        ELSE FsDel(extracted, decrypt_filepath)

\* encrypt_and_zip when fernet.encrypt or the open of the encrypted file
\* raises: local storage as the exception leaves it
encrypt_and_zip_until(f, path, dst_dir, failure) ==
    IF failure = "none" THEN encrypt_and_zip(f, path, dst_dir)
    ELSE FsPut(f, zip_path(f, path, dst_dir), ArchiveFile(zip_members(f, path), FALSE))

\* decrypt_and_unzip when fernet.decrypt, the open of the decrypted file or
\* _unzip raises: local storage as the exception leaves it
decrypt_and_unzip_until(f, filepath, dst_dir, failure) ==
    IF failure = "none" THEN decrypt_and_unzip(f, filepath, dst_dir)
    ELSE IF failure = "extraction"
         THEN FsPut(f, <<PathStem(filepath)>>, ArchiveFile(f[filepath].members, FALSE))
         ELSE f

add_file_extension(filepath) ==
    AddSuffix(AddSuffix(filepath, zip_file_extension), crypt_file_extension)

remove_file_extension(filepath) ==
    PathJoin(PathParent(filepath), <<NameStem(NameStem(PathName(filepath)))>>)

(***************************************************************************)
(* WhisperAWSHelper.  The bucket is a function from object keys to the     *)
(* objects stored under them.                                              *)
(***************************************************************************)
check_if_object_exists_in_bucket(b, key) == key \in DOMAIN b

\* download_from_aws: the object key it looks for
download_key(filepath) ==
    LET name_fullpath == IF ParentHasName(filepath)
                         THEN PathJoin(PathParent(filepath), <<PathName(filepath)>>)
                         ELSE <<PathName(filepath)>>
    IN  add_file_extension(name_fullpath)

download_dest_dir(filepath, dest_dir) ==
    IF ParentHasName(filepath) /\ dest_dir = NoDir THEN PathParent(filepath) ELSE dest_dir

\* the download that opens the local archive file before it looks for the
\* object
download_from_aws_opening_first(f, b, filepath, dest_dir) ==
    LET s3_filepath == download_key(filepath)
        dd == download_dest_dir(filepath, dest_dir)
        crypt_fn == IF dd # NoDir THEN PathJoin(dd, <<PathName(s3_filepath)>>)
                    ELSE s3_filepath
    IN  IF check_if_object_exists_in_bucket(b, s3_filepath)
        THEN decrypt_and_unzip(FsPut(f, crypt_fn, b[s3_filepath]), crypt_fn, dd)
        ELSE FsPut(f, crypt_fn, ArchiveFile(<<>>, TRUE))

\* download_from_aws: local storage afterwards
download_from_aws(f, b, filepath, dest_dir) ==
    LET s3_filepath == download_key(filepath)
        dd == download_dest_dir(filepath, dest_dir)
        crypt_fn == IF dd # NoDir THEN PathJoin(dd, <<PathName(s3_filepath)>>)
                    ELSE s3_filepath
    IN  IF check_if_object_exists_in_bucket(b, s3_filepath)
        THEN decrypt_and_unzip(FsPut(f, crypt_fn, b[s3_filepath]), crypt_fn, dd)
        ELSE f

\* download_from_aws: decrypt_and_unzip raises, and so does the download
download_from_aws_raises(b, filepath) ==
    /\ check_if_object_exists_in_bucket(b, download_key(filepath))
    /\ fernet_decrypt_raises(b[download_key(filepath)])

\* upload_to_aws: the object key it writes
upload_key(f, filepath, tmp_dir, dest_s3_dir) ==
    LET s3_filename == PathName(encrypt_and_zip_path(f, filepath, tmp_dir))
    IN  IF dest_s3_dir # NoDir THEN PathJoin(dest_s3_dir, <<s3_filename>>)
        ELSE IF ParentHasName(filepath) /\ isdir(f, PathParent(filepath))
             THEN PathJoin(PathParent(filepath), <<s3_filename>>)
             ELSE <<s3_filename>>

\* the upload that hands the file itself to the store
upload_to_aws_as_it_is(f, b, filepath, tmp_dir, dest_s3_dir) ==
    FsPut(b, upload_key(f, filepath, tmp_dir, dest_s3_dir), f[filepath])

\* upload_to_aws: the bucket afterwards
upload_to_aws(f, b, filepath, tmp_dir, dest_s3_dir) ==
    LET crypt_file == encrypt_and_zip_path(f, filepath, tmp_dir)
    IN  FsPut(b, upload_key(f, filepath, tmp_dir, dest_s3_dir),
              encrypt_and_zip(f, filepath, tmp_dir)[crypt_file])

\* get_list_of_available_objects_in_dir: the one-level listing under a
\* prefix, each key stripped of the two archive suffixes
get_list_of_available_objects_in_dir(b, dir_path) ==
    {remove_file_extension(k) : k \in {k \in DOMAIN b : PathParent(k) = dir_path}}


(***************************************************************************)
(* WhisperProgressLogger: the ledger document is the sequence of records   *)
(* under 'datasets'; progress_current_ds_data refers to one record of the  *)
(* document (its position) or to a dictionary outside the document (0).    *)
(***************************************************************************)
fresh_ds_entry(dataset_name) ==
    [ds_name |-> dataset_name,
     processed |-> FALSE,
     last_processed_chunk |-> json_last_processed_chunk_new_entry,
     total_processed_length |-> json_total_processed_length_new_entry]

\* the search that looks at the newest record only
FindDatasetNewestOnly(doc, dataset_name) ==
    IF doc # <<>> /\ doc[Len(doc)].ds_name = dataset_name THEN Len(doc) ELSE 0

\* check_dataset_progress: the position of the first record with the name,
\* 0 when there is none
FindDataset(doc, dataset_name) ==
    IF \E x \in 1..Len(doc) : doc[x].ds_name = dataset_name
    THEN CHOOSE x \in 1..Len(doc) :
            /\ doc[x].ds_name = dataset_name
            /\ \A y \in 1..(x - 1) : doc[y].ds_name # dataset_name
    ELSE 0

check_dataset_progress_data(doc, dataset_name) ==
    IF FindDataset(doc, dataset_name) # 0 THEN doc
    ELSE Append(doc, fresh_ds_entry(dataset_name))

check_dataset_progress_current(doc, dataset_name) ==
    IF FindDataset(doc, dataset_name) # 0 THEN FindDataset(doc, dataset_name)
    ELSE Len(doc) + 1

\* the update that lands in the newest record instead of the active one
update_dataset_progress_newest(doc, current, processed_chunk_number, total_processed_length) ==
    IF current = 0 \/ doc = <<>> THEN doc
    ELSE [doc EXCEPT ![Len(doc)].last_processed_chunk = processed_chunk_number,
                     ![Len(doc)].total_processed_length = total_processed_length]

\* the update that records nothing
update_dataset_progress_unrecorded(doc, current, processed_chunk_number, total_processed_length) ==
    doc

update_dataset_progress_data(doc, current, processed_chunk_number, total_processed_length) ==
    IF current = 0 THEN doc
    ELSE [doc EXCEPT ![current].last_processed_chunk = processed_chunk_number,
                     ![current].total_processed_length = total_processed_length]

\* the call that sets the flag of every record
mark_dataset_as_processed_all(doc, current) ==
    IF current = 0 THEN doc
    ELSE [x \in 1..Len(doc) |-> [doc[x] EXCEPT !.processed = TRUE]]

\* the call that leaves the flag as it is
mark_dataset_as_processed_unset(doc, current) == doc

mark_dataset_as_processed_data(doc, current) ==
    IF current = 0 THEN doc
    ELSE [doc EXCEPT ![current].processed = TRUE]

\* the flag replaced by a test of the chunk pointer of a fresh record
is_dataset_processed_by_pointer(doc, current) ==
    doc[current].last_processed_chunk < json_last_processed_chunk_new_entry

is_dataset_processed(doc, current) == doc[current].processed
get_dataset_last_processed_chunk(doc, current) == doc[current].last_processed_chunk
\* the getter that starts every run at a length of 0
get_dataset_total_processed_length_anew(doc, current) == 0

get_dataset_total_processed_length(doc, current) == doc[current].total_processed_length

\* the write that reads the file first and keeps, record by record, the
\* further checkpoint of the two
write_progress_file_merging(f, doc) ==
    LET old == IF FsExists(f, progress_filename) THEN f[progress_filename].doc ELSE <<>>
        kept(r) == IF /\ FindDataset(old, r.ds_name) # 0
                      /\ old[FindDataset(old, r.ds_name)].last_processed_chunk
                            > r.last_processed_chunk
                   THEN old[FindDataset(old, r.ds_name)] ELSE r
    IN  FsPut(f, progress_filename, JsonFile([x \in 1..Len(doc) |-> kept(doc[x])]))

\* the write that only creates the progress file
write_progress_file_once(f, doc) ==
    IF FsExists(f, progress_filename) THEN f ELSE FsPut(f, progress_filename, JsonFile(doc))

\* _write_progress_file: the local write
write_progress_file(f, doc) == FsPut(f, progress_filename, JsonFile(doc))

\* _read_progress_file: local storage after _download_file_from_aws
download_progress_file(f, b, is_source_aws) ==
    IF is_source_aws THEN download_from_aws(f, b, progress_filename, NoDir) ELSE f

\* a progress file that json.load cannot parse (an empty or torn file)
UnparsableFile == TextFile(<<>>)

\* the handler that takes every failure of the read for a missing file
progress_file_unreadable(f) ==
    ~FsExists(f, progress_filename) \/ f[progress_filename].kind # "json"

\* _read_progress_file: except FileNotFoundError
progress_file_missing(f) == ~FsExists(f, progress_filename)

\* _read_progress_file: the document a new logger holds after construction
read_progress_file_data(f, b, is_source_aws) ==
    LET f1 == download_progress_file(f, b, is_source_aws)
    IN  IF FsExists(f1, progress_filename) THEN f1[progress_filename].doc ELSE <<>>

(***************************************************************************)
(* whisper.py: paths of the driver                                         *)
(***************************************************************************)
datasets_dir == PathJoin(INPUT_DIR, DS_DIR)
dataset_path(d) == PathJoin(datasets_dir, << <<d>> >>)
output_file_name(d) == PathJoin(OUTPUT_DIR, << <<d, TRANSCRIPTION_FILE_FORMAT>> >>)

\* the comparison with the bound excluded: unit k is handed out again
chunk_already_processed_strict(idx, last) == idx < last

\* generate_transcript: if i <= last_processed_chunk
chunk_already_processed(idx, last) == idx <= last

\* get_dataset_list: the discovered dataset directories, in listing order
get_dataset_list(f, b, is_source_aws) ==
    LET found == IF is_source_aws
                 THEN get_list_of_available_objects_in_dir(b, datasets_dir)
                 ELSE {q \in DOMAIN f : PathParent(q) = datasets_dir}
    IN  SelectSeq(DatasetOrder, LAMBDA d : dataset_path(d) \in found)

\* the archives of the datasets as ds_creator.encrypt_out_ds leaves them
local_datasets ==
    [q \in {dataset_path(d) : d \in DatasetNames} |->
        DatasetDir(CHOOSE d \in DatasetNames : dataset_path(d) = q)]
remote_datasets ==
    [k \in {encrypt_and_zip_path(local_datasets, dataset_path(d), datasets_dir) : d \in DatasetNames} |->
        encrypt_and_zip(local_datasets,
                        CHOOSE q \in DOMAIN local_datasets :
                            encrypt_and_zip_path(local_datasets, q, datasets_dir) = k,
                        datasets_dir)[k]]


(***************************************************************************)
(* State.                                                                  *)
(*   aws                   is_source_aws: the run uses the bucket          *)
(*   fs, bucket            local storage and the bucket                    *)
(*   pc, after             position of the driver ("off": no process);     *)
(*                         after is where _write_progress_file returns     *)
(*   dataset_list, dsi     the discovered datasets and the loop position   *)
(*   progress_file_data    the ledger document in memory                   *)
(*   current               progress_current_ds_data                        *)
(*   last_processed_chunk, current_length, i                               *)
(*                         locals of generate_transcript                   *)
(* History, not read by the program:                                       *)
(*   runs                  number of runs started                          *)
(*   calls                 the units handed to process_sample in this run  *)
(*   transcribed           the units process_sample ever returned for      *)
(*   start_doc             the document _read_progress_file obtained       *)
(*   failed, retry         the unit process_sample raised on, and the      *)
(*                         first unit the dataset was handed afterwards    *)
(*   arg, seen, written    see aux below                                   *)
(***************************************************************************)
VARIABLES aws, fs, bucket, pc, after, dataset_list, dsi, progress_file_data,
          current, last_processed_chunk, current_length, i,
          runs, calls, transcribed, start_doc, failed, retry, arg, seen, written,
          drivers

disk == <<aws, fs, bucket>>
locals == <<dataset_list, dsi, progress_file_data, current, last_processed_chunk,
            current_length, i, after>>
history == <<runs, calls, transcribed, start_doc, failed, retry>>
\* arg: the argument of the call under study; seen: the dataset names handed
\* to check_dataset_progress; written: for each dataset name the values of
\* the latest update_dataset_progress on its record (used by the
\* specifications of single calls); drivers: the state of each of the
\* driver processes that run side by side (used by SpecDrivers)
aux == <<arg, seen, written, drivers>>
vars == <<aws, fs, bucket, pc, after, dataset_list, dsi, progress_file_data,
          current, last_processed_chunk, current_length, i,
          runs, calls, transcribed, start_doc, failed, retry, arg, seen, written,
          drivers>>

\* the memory of a process that is not running
NoProcess ==
    /\ pc' = "off"
    /\ after' = "off"
    /\ dataset_list' = <<>>
    /\ dsi' = 0
    /\ progress_file_data' = <<>>
    /\ current' = 0
    /\ last_processed_chunk' = -1
    /\ current_length' = 0
    /\ i' = 0

\* the dataset the loop of generate_transcript is at
ds_name == dataset_list[dsi]

\* where _write_progress_file continues after the local write
AfterLocalWrite(next) ==
    /\ pc' = IF aws THEN "mirror" ELSE next
    /\ after' = next

\* no update_dataset_progress yet
NothingWritten == [n \in {} |-> <<>>]

\* the bucket as ds_creator leaves it when the archive of dataset d was
\* encrypted with another key than the one the driver reads
remote_datasets_foreign(d) ==
    LET k == encrypt_and_zip_path(local_datasets, dataset_path(d), datasets_dir)
    IN  FsPut(remote_datasets, k, ForeignArchive(remote_datasets[k].members))

\* at the first start the progress file is absent or, left behind torn, cannot
\* be parsed
Init ==
    /\ aws \in BOOLEAN
    /\ \E f \in {IF aws THEN EmptyFs ELSE local_datasets} :
          fs \in {f, FsPut(f, progress_filename, UnparsableFile)}
    /\ bucket \in IF aws THEN {remote_datasets, remote_datasets_foreign("d2")}
                  ELSE {EmptyFs}
    /\ pc = "off"
    /\ after = "off"
    /\ dataset_list = <<>>
    /\ dsi = 0
    /\ progress_file_data = <<>>
    /\ current = 0
    /\ last_processed_chunk = -1
    /\ current_length = 0
    /\ i = 0
    /\ runs = 0
    /\ calls = <<>>
    /\ transcribed = {}
    /\ start_doc = <<>>
    /\ failed = <<>>
    /\ retry = <<>>
    /\ arg = <<>>
    /\ seen = {}
    /\ written = NothingWritten
    /\ drivers = <<>>

\* main .. generate_transcript up to get_dataset_list; fresh: the process is
\* started on a machine whose local storage holds nothing yet
StartRun(fresh) ==
    /\ pc = "off"
    /\ runs < MaxRuns
    /\ fresh => (aws /\ runs >= 1)
    /\ fs' = IF fresh THEN EmptyFs ELSE fs
    /\ dataset_list' = get_dataset_list(fs', bucket, aws)
    /\ dsi' = 1
    /\ pc' = "read"
    /\ runs' = runs + 1
    /\ calls' = <<>>
    /\ start_doc' = <<>>
    /\ UNCHANGED <<aws, bucket, after, progress_file_data, current,
                   last_processed_chunk, current_length, i, transcribed, failed, retry, aux>>

\* WhisperProgressLogger.__init__ and _read_progress_file
ReadProgressFile ==
    /\ pc = "read"
    /\ LET f1 == download_progress_file(fs, bucket, aws)
       IN  IF aws /\ download_from_aws_raises(bucket, progress_filename)
           THEN /\ progress_file_data' = <<>>
                /\ fs' = f1
                /\ pc' = "off"
                /\ UNCHANGED after
           ELSE IF ~progress_file_missing(f1)
           THEN /\ progress_file_data' = f1[progress_filename].doc
                /\ fs' = f1
                /\ pc' = IF f1[progress_filename].kind = "json" THEN "loop" ELSE "off"
                /\ UNCHANGED after
           ELSE /\ progress_file_data' = <<>>
                /\ fs' = write_progress_file(f1, <<>>)
                /\ AfterLocalWrite("loop")
    /\ start_doc' = progress_file_data'
    /\ UNCHANGED <<aws, bucket, dataset_list, dsi, current, last_processed_chunk,
                   current_length, i, runs, calls, transcribed, failed, retry, aux>>

\* _write_progress_file: _upload_file_to_aws
UploadProgressFile ==
    /\ pc = "mirror"
    /\ bucket' = upload_to_aws(fs, bucket, progress_filename, NoDir, NoDir)
    /\ fs' = encrypt_and_zip(fs, progress_filename, NoDir)
    /\ pc' = after
    /\ UNCHANGED <<aws, after, dataset_list, dsi, progress_file_data, current,
                   last_processed_chunk, current_length, i>>
    /\ UNCHANGED <<history, aux>>

\* generate_transcript: progress.check_dataset_progress(ds_name)
CheckDatasetProgress ==
    /\ pc = "loop"
    /\ dsi <= Len(dataset_list)
    /\ progress_file_data' = check_dataset_progress_data(progress_file_data, ds_name)
    /\ current' = check_dataset_progress_current(progress_file_data, ds_name)
    /\ IF FindDataset(progress_file_data, ds_name) = 0
       THEN /\ fs' = write_progress_file(fs, progress_file_data')
            /\ AfterLocalWrite("decide")
       ELSE /\ pc' = "decide"
            /\ UNCHANGED <<fs, after>>
    /\ UNCHANGED <<aws, bucket, dataset_list, dsi, last_processed_chunk, current_length, i>>
    /\ UNCHANGED <<history, aux>>

\* generate_transcript: is_dataset_processed, the resume decision and
\* download_partial_transcription
ResumeOrStart ==
    /\ pc = "decide"
    /\ IF is_dataset_processed(progress_file_data, current)
       THEN /\ dsi' = dsi + 1
            /\ pc' = "loop"
            /\ UNCHANGED <<fs, last_processed_chunk, current_length>>
       ELSE /\ last_processed_chunk' = get_dataset_last_processed_chunk(progress_file_data, current)
            /\ current_length' = get_dataset_total_processed_length(progress_file_data, current)
            /\ fs' = IF last_processed_chunk' >= 0 /\ aws
                     THEN download_from_aws(fs, bucket, output_file_name(ds_name), NoDir)
                     ELSE fs
            /\ pc' = IF /\ last_processed_chunk' >= 0 /\ aws
                        /\ download_from_aws_raises(bucket, output_file_name(ds_name))
                     THEN "off" ELSE "load"
            /\ UNCHANGED dsi
    /\ UNCHANGED <<aws, bucket, after, dataset_list, progress_file_data, current, i>>
    /\ UNCHANGED <<history, aux>>

\* generate_transcript: load_dataset and open(output_file_name, 'a')
LoadDataset ==
    /\ pc = "load"
    /\ LET f1 == IF aws THEN download_from_aws(fs, bucket, dataset_path(ds_name), NoDir) ELSE fs
           out == output_file_name(ds_name)
       IN  IF /\ ~(aws /\ download_from_aws_raises(bucket, dataset_path(ds_name)))
              /\ isdir(f1, dataset_path(ds_name))
           THEN /\ fs' = IF FsExists(f1, out) THEN f1 ELSE FsPut(f1, out, TextFile(<<>>))
                /\ i' = 0
                /\ pc' = "unit"
                /\ UNCHANGED <<after, dataset_list, dsi, progress_file_data, current,
                               last_processed_chunk, current_length>>
           ELSE /\ fs' = f1
                /\ NoProcess
    /\ UNCHANGED <<aws, bucket>>
    /\ UNCHANGED <<history, aux>>

\* the record of failed and retry when process_sample is handed unit i
NoteRetry ==
    IF failed # <<>> /\ failed[1] = ds_name
    THEN /\ retry' = <<ds_name, failed[2], i>>
         /\ failed' = <<>>
    ELSE UNCHANGED <<failed, retry>>

\* for i, d in enumerate(ds): if i <= last_processed_chunk: continue
SkipUnit ==
    /\ pc = "unit"
    /\ i < NumUnits(ds_name)
    /\ chunk_already_processed(i, last_processed_chunk)
    /\ i' = i + 1
    /\ UNCHANGED <<aws, fs, bucket, pc, after, dataset_list, dsi, progress_file_data,
                   current, last_processed_chunk, current_length>>
    /\ UNCHANGED <<history, aux>>

\* the else branch up to file.flush(): process_sample returns
ProcessUnit ==
    /\ pc = "unit"
    /\ i < NumUnits(ds_name)
    /\ ~chunk_already_processed(i, last_processed_chunk)
    /\ current_length' = current_length + UnitLen(ds_name, i)
    /\ LET out == output_file_name(ds_name)
       IN  fs' = FsPut(fs, out, TextFile(Append(fs[out].lines, i)))
    /\ pc' = IF aws THEN "upload_out" ELSE "update"
    /\ calls' = Append(calls, <<ds_name, i>>)
    /\ transcribed' = transcribed \cup {<<ds_name, i>>}
    /\ NoteRetry
    /\ UNCHANGED <<aws, bucket, after, dataset_list, dsi, progress_file_data, current,
                   last_processed_chunk, i, runs, start_doc, aux>>

\* the else branch: process_sample raises, nothing catches it
FailUnit ==
    /\ pc = "unit"
    /\ i < NumUnits(ds_name)
    /\ ~chunk_already_processed(i, last_processed_chunk)
    /\ failed = <<>>
    /\ retry = <<>>
    /\ calls' = Append(calls, <<ds_name, i>>)
    /\ failed' = <<ds_name, i>>
    /\ NoProcess
    /\ UNCHANGED <<aws, fs, bucket, runs, transcribed, start_doc, retry, aux>>

\* the driver that goes on to the checkpoint without the upload
UploadOutputOmitted ==
    /\ pc = "upload_out"
    /\ pc' = "update"
    /\ UNCHANGED <<aws, fs, bucket, after, dataset_list, dsi, progress_file_data, current,
                   last_processed_chunk, current_length, i>>
    /\ UNCHANGED <<history, aux>>

\* upload_file_to_aws(output_file_name)
UploadOutput ==
    /\ pc = "upload_out"
    /\ LET out == output_file_name(ds_name)
       IN  /\ bucket' = upload_to_aws(fs, bucket, out, PathParent(out), NoDir)
           /\ fs' = encrypt_and_zip(fs, out, PathParent(out))
    /\ pc' = "update"
    /\ UNCHANGED <<aws, after, dataset_list, dsi, progress_file_data, current,
                   last_processed_chunk, current_length, i>>
    /\ UNCHANGED <<history, aux>>

\* progress.update_dataset_progress(i, current_length), up to the local write
UpdateDatasetProgress ==
    /\ pc = "update"
    /\ progress_file_data' =
           update_dataset_progress_data(progress_file_data, current, i, current_length)
    /\ fs' = write_progress_file(fs, progress_file_data')
    /\ i' = i + 1
    /\ AfterLocalWrite("unit")
    /\ UNCHANGED <<aws, bucket, dataset_list, dsi, current, last_processed_chunk,
                   current_length>>
    /\ UNCHANGED <<history, aux>>

\* the loop is exhausted: progress.mark_dataset_as_processed(), up to the
\* local write
MarkDatasetAsProcessed ==
    /\ pc = "unit"
    /\ ~(i < NumUnits(ds_name))
    /\ progress_file_data' = mark_dataset_as_processed_data(progress_file_data, current)
    /\ fs' = write_progress_file(fs, progress_file_data')
    /\ AfterLocalWrite("rmtree")
    /\ UNCHANGED <<aws, bucket, dataset_list, dsi, current, last_processed_chunk,
                   current_length, i>>
    /\ UNCHANGED <<history, aux>>

\* shutil.rmtree(dir_path), then the next dataset
RemoveWorkingDir ==
    /\ pc = "rmtree"
    /\ fs' = FsDel(fs, dataset_path(ds_name))
    /\ dsi' = dsi + 1
    /\ pc' = "loop"
    /\ UNCHANGED <<aws, bucket, after, dataset_list, progress_file_data, current,
                   last_processed_chunk, current_length, i>>
    /\ UNCHANGED <<history, aux>>

\* generate_transcript returns: every discovered dataset was visited
Finish ==
    /\ pc = "loop"
    /\ ~(dsi <= Len(dataset_list))
    /\ NoProcess
    /\ UNCHANGED disk
    /\ UNCHANGED <<history, aux>>

\* the process is interrupted (spot instance reclaimed, kill, power loss)
Interrupt ==
    /\ pc # "off"
    /\ NoProcess
    /\ UNCHANGED disk
    /\ UNCHANGED <<history, aux>>

Next ==
    \/ \E fresh \in BOOLEAN : StartRun(fresh)
    \/ ReadProgressFile
    \/ UploadProgressFile
    \/ CheckDatasetProgress
    \/ ResumeOrStart
    \/ LoadDataset
    \/ SkipUnit
    \/ ProcessUnit
    \/ FailUnit
    \/ UploadOutput
    \/ UpdateDatasetProgress
    \/ MarkDatasetAsProcessed
    \/ RemoveWorkingDir
    \/ Finish
    \/ Interrupt

Spec == Init /\ [][Next]_vars

TypeOK ==
    /\ aws \in BOOLEAN
    /\ pc \in {"off", "read", "mirror", "loop", "decide", "load", "unit",
               "upload_out", "update", "rmtree",
               "names", "uploaded", "downloaded", "new", "api",
               "audio", "chunks", "plain", "encrypted", "decrypted", "raised",
               "drivers"}
    /\ runs \in 0..MaxRuns
    /\ current \in 0..Len(progress_file_data)
    /\ i \in 0..MaxUnits


(***************************************************************************)
(* Observations of the persisted ledger and of the output artifact.        *)
(***************************************************************************)
\* the ledger document in the local progress file (empty when absent)
local_ledger == IF FsExists(fs, progress_filename) THEN fs[progress_filename].doc ELSE <<>>

\* the object key _upload_file_to_aws stores the ledger under, and the
\* document held by that object (empty when absent)
ledger_mirror_key ==
    upload_key(write_progress_file(EmptyFs, <<>>), progress_filename, NoDir, NoDir)
MirrorOf(b) ==
    IF ledger_mirror_key \in DOMAIN b /\ b[ledger_mirror_key].members # <<>>
    THEN b[ledger_mirror_key].members[1].data.doc
    ELSE <<>>
ledger_mirror == MirrorOf(bucket)

HasRecord(doc, d) == FindDataset(doc, d) # 0
RecordOf(doc, d) ==
    IF HasRecord(doc, d) THEN doc[FindDataset(doc, d)] ELSE fresh_ds_entry(d)

\* the results of units 0 .. n-1, once each, in unit order
UnitsInOrder(n) == [x \in 1..n |-> x - 1]
OutputLines(f, d) ==
    IF FsExists(f, output_file_name(d)) THEN f[output_file_name(d)].lines ELSE <<>>

(***************************************************************************)
(* C1  Resume without rework: a run whose ledger, as read at start, holds  *)
(* lastProcessedIndex = k for a dataset hands process_sample only units    *)
(* with index > k of that dataset, in increasing order, and every dataset  *)
(* the run has left behind is marked processed in the persisted ledger.    *)
(***************************************************************************)
C1_ResumeWithoutRework ==
    /\ \A x \in 1..Len(calls) :
          HasRecord(start_doc, calls[x][1]) =>
              calls[x][2] > RecordOf(start_doc, calls[x][1]).last_processed_chunk
    /\ \A x, y \in 1..Len(calls) :
          (x < y /\ calls[x][1] = calls[y][1]) => calls[x][2] < calls[y][2]
    /\ pc # "off" =>
          \A x \in 1..Len(dataset_list) :
              x < dsi => RecordOf(local_ledger, dataset_list[x]).processed

\* a run that read k = 0 for d1 has handed exactly unit 1 to process_sample
\* and has left d1 behind
C1_Witness ==
    /\ pc = "loop"
    /\ dsi = 2
    /\ HasRecord(start_doc, "d1")
    /\ RecordOf(start_doc, "d1").last_processed_chunk = 0
    /\ calls # <<>>
    /\ calls[1] = <<"d1", 1>>


(***************************************************************************)
(* C2  Resume output equivalence: after one interruption that followed the *)
(* checkpoint of unit k >= 0 and one rerun that completed the dataset, the *)
(* output artifact holds the result of every unit exactly once, in unit    *)
(* order.                                                                  *)
(***************************************************************************)
C2_ResumeOutputEquivalence ==
    \A d \in DatasetNames :
        ( /\ runs = 2
          /\ pc # "off"
          /\ HasRecord(start_doc, d)
          /\ RecordOf(start_doc, d).last_processed_chunk >= 0
          /\ ~RecordOf(start_doc, d).processed
          /\ RecordOf(local_ledger, d).processed )
        => OutputLines(fs, d) = UnitsInOrder(NumUnits(d))

(***************************************************************************)
(* C3  Checkpointing is per unit: in every reachable state at most one     *)
(* unit of a dataset has been transcribed without being recorded in the    *)
(* persisted ledger (the local progress file or its mirror in the bucket). *)
(***************************************************************************)
RecordedIndex(d) ==
    LET a == RecordOf(local_ledger, d).last_processed_chunk
        b == RecordOf(ledger_mirror, d).last_processed_chunk
    IN  IF a >= b THEN a ELSE b

C3_AtMostOneUnrecordedUnit ==
    \A d \in DatasetNames :
        Cardinality({u \in transcribed : u[1] = d /\ u[2] > RecordedIndex(d)}) <= 1

(***************************************************************************)
(* C4  Terminal short-circuit: while a run is alive, a dataset whose       *)
(* record was processed = true in the ledger the run read is never handed  *)
(* to process_sample, and no step changes its working directory, its       *)
(* output artifact (local or in the bucket) or its ledger record.          *)
(***************************************************************************)
ProcessedAtStart(d) == HasRecord(start_doc, d) /\ RecordOf(start_doc, d).processed

DatasetFootprint(f, b, doc, d) ==
    << FsExists(f, dataset_path(d)),
       FsExists(f, output_file_name(d)),
       OutputLines(f, d),
       {k \in DOMAIN b : k = upload_key(f, output_file_name(d), OUTPUT_DIR, NoDir)},
       OutputLines(unzip(EmptyFs,
                         IF upload_key(f, output_file_name(d), OUTPUT_DIR, NoDir) \in DOMAIN b
                         THEN b[upload_key(f, output_file_name(d), OUTPUT_DIR, NoDir)].members
                         ELSE <<>>, NoDir), d),
       RecordOf(doc, d) >>

C4_TerminalShortCircuit ==
    [][ \A d \in DatasetNames :
          (pc # "off" /\ ProcessedAtStart(d)) =>
              /\ \A x \in 1..Len(calls') : calls'[x][1] # d
              /\ DatasetFootprint(fs', bucket', local_ledger', d)
                   = DatasetFootprint(fs, bucket, local_ledger, d)
              /\ pc' # "off" =>
                   RecordOf(progress_file_data', d) = RecordOf(start_doc, d) ]_vars

\* a run has met a dataset that its ledger showed as processed and moved on
C4_Witness ==
    /\ pc = "loop"
    /\ dsi = 2
    /\ ProcessedAtStart("d1")
    /\ FsExists(fs, dataset_path("d1"))


(***************************************************************************)
(* C5  Failed unit is retried, not skipped: when process_sample raises on  *)
(* unit k, the persisted record still shows processed = false and          *)
(* lastProcessedIndex = k - 1, the working directory is still there, and   *)
(* the first unit of that dataset handed to process_sample afterwards is   *)
(* unit k.                                                                 *)
(***************************************************************************)
C5_FailedUnitIsRetried ==
    [][ /\ (failed = <<>> /\ failed' # <<>>) =>
              /\ ~RecordOf(local_ledger', failed'[1]).processed
              /\ RecordOf(local_ledger', failed'[1]).last_processed_chunk = failed'[2] - 1
              /\ FsExists(fs', dataset_path(failed'[1]))
        /\ retry' # <<>> => retry'[3] = retry'[2] ]_vars

(***************************************************************************)
(* C6  The persisted lastProcessedIndex of a dataset (in the bucket mirror *)
(* when remote-backed, else in the local progress file; -1 when the        *)
(* document has no record of the dataset) never decreases while            *)
(* processed = false.                                                      *)
(***************************************************************************)
PersistedLedger(f, b, is_source_aws) ==
    IF is_source_aws THEN MirrorOf(b)
    ELSE IF FsExists(f, progress_filename) THEN f[progress_filename].doc ELSE <<>>

C6_LastProcessedIndexMonotone ==
    [][ \A d \in DatasetNames :
          ~RecordOf(PersistedLedger(fs', bucket', aws'), d).processed =>
              RecordOf(PersistedLedger(fs', bucket', aws'), d).last_processed_chunk
                >= RecordOf(PersistedLedger(fs, bucket, aws), d).last_processed_chunk ]_vars

(***************************************************************************)
(* C7  Remote-backed resume on a different machine: a logger constructed   *)
(* where no local progress file exists obtains the mirrored ledger, so     *)
(* for every record (k, L) of the mirror check_dataset_progress yields     *)
(* lastProcessedIndex = k and totalProcessedLength = L.                    *)
(***************************************************************************)
CheckYields(doc, d) ==
    LET doc2 == check_dataset_progress_data(doc, d)
        cur2 == check_dataset_progress_current(doc, d)
    IN  << get_dataset_last_processed_chunk(doc2, cur2),
           get_dataset_total_processed_length(doc2, cur2) >>

C7_RemoteResumeOnOtherMachine ==
    (aws /\ pc = "mirror" /\ after = "loop") =>
        \A x \in 1..Len(ledger_mirror) :
            CheckYields(progress_file_data, ledger_mirror[x].ds_name)
              = << ledger_mirror[x].last_processed_chunk,
                   ledger_mirror[x].total_processed_length >>

(***************************************************************************)
(* C9  Fresh start replaces the output artifact: in a run that started a   *)
(* dataset from lastProcessedIndex = -1, the artifact holds, between two   *)
(* units, exactly the results this run wrote (units 0 .. i-1) and no       *)
(* leftover of an earlier attempt.                                         *)
(***************************************************************************)
C9_FreshStartReplacesOutput ==
    (pc = "unit" /\ last_processed_chunk = -1) =>
        OutputLines(fs, ds_name) = UnitsInOrder(i)


(***************************************************************************)
(* SpecNames: upload_to_aws and download_from_aws applied to one local     *)
(* path, drawn from files and directories with and without an extension    *)
(* and with and without a parent directory.  arg is the path, the key the  *)
(* upload stored and whether the download found its key.                   *)
(***************************************************************************)
NameDirs == {NoDir, OUTPUT_DIR, datasets_dir}
NameNames == {<<"d1">>, <<"d1", "txt">>, <<"progress", "json">>, <<"", "hidden">>,
              <<"a", "b", "c">>}
NamePaths == {PathJoin(dir, <<n>>) : dir \in NameDirs, n \in NameNames}

NamesInit ==
    /\ aws = TRUE
    /\ \E p \in NamePaths, c \in {TextFile(<<0>>), DatasetDir("d1")} :
          /\ fs = FsPut(EmptyFs, p, c)
          /\ arg = [path |-> p, key |-> <<>>, found |-> FALSE]
    /\ bucket = EmptyFs
    /\ pc = "names"
    /\ after = "off"
    /\ dataset_list = <<>>
    /\ dsi = 0
    /\ progress_file_data = <<>>
    /\ current = 0
    /\ last_processed_chunk = -1
    /\ current_length = 0
    /\ i = 0
    /\ runs = 0
    /\ calls = <<>>
    /\ transcribed = {}
    /\ start_doc = <<>>
    /\ failed = <<>>
    /\ retry = <<>>
    /\ seen = {}
    /\ written = NothingWritten
    /\ drivers = <<>>

\* wah.upload_to_aws(path, tmp_dir)
NamesUpload(tmp_dir) ==
    /\ pc = "names"
    /\ bucket' = upload_to_aws(fs, bucket, arg.path, tmp_dir, NoDir)
    /\ fs' = encrypt_and_zip(fs, arg.path, tmp_dir)
    /\ arg' = [arg EXCEPT !.key = upload_key(fs, arg.path, tmp_dir, NoDir)]
    /\ pc' = "uploaded"
    /\ UNCHANGED <<aws, locals, history, seen, written, drivers>>

\* wah.download_from_aws(path)
NamesDownload ==
    /\ pc = "uploaded"
    /\ fs' = download_from_aws(fs, bucket, arg.path, NoDir)
    /\ arg' = [arg EXCEPT !.found =
                   check_if_object_exists_in_bucket(bucket, download_key(arg.path))]
    /\ pc' = "downloaded"
    /\ UNCHANGED <<aws, bucket, locals, history, seen, written, drivers>>

NamesNext ==
    \/ \E tmp_dir \in {NoDir, OUTPUT_DIR} : NamesUpload(tmp_dir)
    \/ NamesDownload

SpecNames == NamesInit /\ [][NamesNext]_vars

(***************************************************************************)
(* C8  Deterministic archive naming: the key under which upload_to_aws(p)  *)
(* stores the archive is the key download_from_aws(p) computes, so a       *)
(* download of p after an upload of p finds the object.                    *)
(***************************************************************************)
C8_UploadKeyIsDownloadKey ==
    /\ pc \in {"uploaded", "downloaded"} => arg.key = download_key(arg.path)
    /\ pc = "downloaded" => arg.found


(***************************************************************************)
(* SpecLedger: the methods of one WhisperProgressLogger called in any      *)
(* order with any arguments, each call running to its end (the local write *)
(* and, when remote-backed, the upload).  The progress file starts absent, *)
(* empty or with one record.  seen holds the names handed to               *)
(* check_dataset_progress (and those of the initial document); arg is the  *)
(* latest call; runs counts the calls; start_doc is the document the       *)
(* newest logger read; written holds the values of the latest update of    *)
(* each name.                                                              *)
(***************************************************************************)
\* _write_progress_file
PersistLedger(doc) ==
    LET saved == write_progress_file(fs, doc)
    IN  /\ fs' = IF aws THEN encrypt_and_zip(saved, progress_filename, NoDir) ELSE saved
        /\ bucket' = IF aws
                     THEN upload_to_aws(saved, bucket, progress_filename, NoDir, NoDir)
                     ELSE bucket

LedgerNames(doc) == {doc[x].ds_name : x \in 1..Len(doc)}

LedgerInitialDocs ==
    { <<>>,
      << [ds_name |-> "d1", processed |-> FALSE,
          last_processed_chunk |-> 0, total_processed_length |-> 1] >> }

LedgerInit ==
    /\ aws \in BOOLEAN
    /\ \/ fs = EmptyFs /\ seen = {}
       \/ \E doc \in LedgerInitialDocs :
             /\ fs = write_progress_file(EmptyFs, doc)
             /\ seen = LedgerNames(doc)
    /\ bucket = EmptyFs
    /\ pc = "new"
    /\ after = "off"
    /\ dataset_list = <<>>
    /\ dsi = 0
    /\ progress_file_data = <<>>
    /\ current = 0
    /\ last_processed_chunk = -1
    /\ current_length = 0
    /\ i = 0
    /\ runs = 0
    /\ calls = <<>>
    /\ transcribed = {}
    /\ start_doc = <<>>
    /\ failed = <<>>
    /\ retry = <<>>
    /\ arg = <<>>
    /\ written = NothingWritten
    /\ drivers = <<>>

\* WhisperProgressLogger(progress_filepath=None, whisperAWSHelper)
LedgerNew ==
    /\ runs < MaxCalls
    /\ LET f1 == download_progress_file(fs, bucket, aws)
       IN  IF FsExists(f1, progress_filename)
           THEN /\ progress_file_data' = f1[progress_filename].doc
                /\ fs' = f1
                /\ UNCHANGED bucket
           ELSE /\ progress_file_data' = <<>>
                /\ PersistLedger(<<>>)
    /\ current' = 0
    /\ pc' = "api"
    /\ runs' = runs + 1
    /\ arg' = <<"new">>
    /\ start_doc' = progress_file_data'
    /\ UNCHANGED <<aws, after, dataset_list, dsi, last_processed_chunk, current_length, i,
                   calls, transcribed, failed, retry, seen, written, drivers>>

\* check_dataset_progress(dataset_name)
LedgerCheck(dataset_name) ==
    /\ pc = "api"
    /\ runs < MaxCalls
    /\ progress_file_data' = check_dataset_progress_data(progress_file_data, dataset_name)
    /\ current' = check_dataset_progress_current(progress_file_data, dataset_name)
    /\ IF FindDataset(progress_file_data, dataset_name) = 0
       THEN PersistLedger(progress_file_data')
       ELSE UNCHANGED <<fs, bucket>>
    /\ seen' = seen \cup {dataset_name}
    /\ runs' = runs + 1
    /\ arg' = <<"check", dataset_name, dataset_name \in seen>>
    /\ UNCHANGED <<aws, pc, after, dataset_list, dsi, last_processed_chunk, current_length, i,
                   calls, transcribed, start_doc, failed, retry, written, drivers>>

\* update_dataset_progress(processed_chunk_number, total_processed_length)
LedgerUpdate(processed_chunk_number, total_processed_length) ==
    /\ pc = "api"
    /\ runs < MaxCalls
    /\ progress_file_data' = update_dataset_progress_data(progress_file_data, current,
                                 processed_chunk_number, total_processed_length)
    /\ PersistLedger(progress_file_data')
    /\ runs' = runs + 1
    /\ arg' = <<"update", processed_chunk_number, total_processed_length>>
    /\ written' = IF current = 0 THEN written
                  ELSE (progress_file_data[current].ds_name
                          :> <<processed_chunk_number, total_processed_length>>) @@ written
    /\ UNCHANGED <<aws, pc, after, dataset_list, dsi, current, last_processed_chunk,
                   current_length, i, calls, transcribed, start_doc, failed, retry, seen,
                   drivers>>

\* mark_dataset_as_processed()
LedgerMark ==
    /\ pc = "api"
    /\ runs < MaxCalls
    /\ progress_file_data' = mark_dataset_as_processed_data(progress_file_data, current)
    /\ PersistLedger(progress_file_data')
    /\ runs' = runs + 1
    /\ arg' = <<"mark">>
    /\ UNCHANGED <<aws, pc, after, dataset_list, dsi, current, last_processed_chunk,
                   current_length, i, calls, transcribed, start_doc, failed, retry, seen, written, drivers>>

LedgerNext ==
    \/ LedgerNew
    \/ \E dataset_name \in DatasetNames : LedgerCheck(dataset_name)
    \/ \E k \in 0..MaxIndex, len \in 0..MaxLength : LedgerUpdate(k, len)
    \/ LedgerMark

SpecLedger == LedgerInit /\ [][LedgerNext]_vars

(***************************************************************************)
(* C10  One record per dataset name: after any sequence of calls the       *)
(* ledger document, in memory and in the progress file, holds exactly one  *)
(* record for every name handed to check_dataset_progress and no other     *)
(* record; a repeated check adds none.                                     *)
(***************************************************************************)
OneRecordPerName(doc) ==
    /\ \A x, y \in 1..Len(doc) : x # y => doc[x].ds_name # doc[y].ds_name
    /\ LedgerNames(doc) = seen

C10_OneRecordPerName ==
    pc = "api" => (OneRecordPerName(progress_file_data) /\ OneRecordPerName(local_ledger))

\* check_dataset_progress was called again for d1 after d2 had been added
C10_Witness ==
    /\ pc = "api"
    /\ arg = <<"check", "d1", TRUE>>
    /\ Len(local_ledger) = 2
    /\ local_ledger[2].ds_name = "d2"


(***************************************************************************)
(* C11  Ledger read-after-write: once update_dataset_progress(i, L) has    *)
(* been called on the record of a name n, a new logger that reads the      *)
(* progress file and calls check_dataset_progress(n) gets i from           *)
(* get_dataset_last_processed_chunk and L from                             *)
(* get_dataset_total_processed_length, whatever other names were checked   *)
(* and updated since; the same holds for the logger at hand after its own  *)
(* check_dataset_progress(n).                                              *)
(***************************************************************************)
C11_ReadAfterWrite ==
    pc = "api" =>
        /\ \A n \in DOMAIN written :
              CheckYields(read_progress_file_data(fs, bucket, aws), n) = written[n]
        /\ (arg[1] = "check" /\ arg[2] \in DOMAIN written) =>
              << get_dataset_last_processed_chunk(progress_file_data, current),
                 get_dataset_total_processed_length(progress_file_data, current) >>
                = written[arg[2]]

\* a logger constructed after d1 was updated to (1, 1) and d2 was checked and
\* updated has been asked for d1
C11_Witness ==
    /\ pc = "api"
    /\ arg = <<"check", "d1", TRUE>>
    /\ DOMAIN written = {"d1", "d2"}
    /\ written["d1"] = <<1, 1>>
    /\ Len(start_doc) = 2
    /\ start_doc[2].ds_name = "d2"
    /\ RecordOf(start_doc, "d1").last_processed_chunk = 1
    /\ RecordOf(start_doc, "d2").last_processed_chunk = written["d2"][1]

(***************************************************************************)
(* C12  First sight is durable: check_dataset_progress of a name without a *)
(* record makes the fresh record {processed: false, last_processed_chunk:  *)
(* -1, total_processed_length: 0} the active record and persists the       *)
(* document before it returns; from any state in which such a call has     *)
(* returned for a name, every step, an interruption included, leaves a     *)
(* persisted ledger (the local progress file and, when remote-backed, its  *)
(* mirror) that holds a record of that name.                               *)
(***************************************************************************)
\* check_dataset_progress(n) has returned in the running process
CheckReturned(n) ==
    /\ pc # "off"
    /\ \E x \in 1..Len(dataset_list) :
          /\ dataset_list[x] = n
          /\ \/ x < dsi
             \/ /\ x = dsi
                /\ \/ pc \in {"decide", "load", "unit", "upload_out", "update", "rmtree"}
                   \/ pc = "mirror" /\ after \in {"unit", "rmtree"}

C12_FirstSightIsDurable ==
    [][ /\ \A n \in DatasetNames :
              (CheckReturned(n) /\ ~HasRecord(start_doc, n)) =>
                  /\ HasRecord(local_ledger', n)
                  /\ aws => HasRecord(ledger_mirror', n)
        /\ (pc' = "decide" /\ ~HasRecord(start_doc', ds_name')) =>
              /\ progress_file_data'[current'] = fresh_ds_entry(ds_name')
              /\ RecordOf(local_ledger', ds_name') = fresh_ds_entry(ds_name')
              /\ aws => RecordOf(ledger_mirror', ds_name') = fresh_ds_entry(ds_name') ]_vars

\* a remote-backed run was interrupted after check_dataset_progress had
\* returned for a name the ledger did not know
C12_Witness ==
    /\ aws
    /\ pc = "off"
    /\ runs = 1
    /\ start_doc = <<>>
    /\ calls = <<>>
    /\ local_ledger = << fresh_ds_entry("d1") >>
    /\ ledger_mirror = << fresh_ds_entry("d1") >>

(***************************************************************************)
(* ds_creator.py: segmentation.  An audio buffer is the span [from, to) of *)
(* the source it was sliced from, its length to - from; the buffer built   *)
(* by += is the sequence of the pieces added, in the order of addition.    *)
(* The silence detector is outside the program: detector[t] is the set of  *)
(* positions at which a detection pass with threshold t cuts the buffer it *)
(* is given, so every pass returns an ordered partition of its buffer.     *)
(***************************************************************************)
SILENCE_THRESHOLD == -50
MAX_CHUNK_LENGTH == 30 * 1000
threshold_step == 5

PieceLen(ss) == ss.to - ss.from
RECURSIVE ChunkLen(_)
ChunkLen(chunk) ==
    IF chunk = <<>> THEN 0 ELSE PieceLen(Head(chunk)) + ChunkLen(Tail(chunk))

\* split_on_silence(audio_file, ..., keep_silence=True): the pieces of
\* [from, to) between the cuts that fall inside it, in order
RECURSIVE split_on_silence(_, _, _)
split_on_silence(cuts, from, to) ==
    LET inside == {c \in cuts : from < c /\ c < to}
    IN  IF inside = {} THEN << [from |-> from, to |-> to] >>
        ELSE LET c == CHOOSE x \in inside : \A y \in inside : x <= y
             IN  << [from |-> from, to |-> c] >> \o split_on_silence(cuts, c, to)

\* the cuts of a detection pass with threshold silence_thresh: a detector
\* finds no silence at a threshold it is not described for
detected_cuts(detector, silence_thresh) ==
    IF silence_thresh \in DOMAIN detector THEN detector[silence_thresh] ELSE {}

\* the test that still relaxes a threshold of 0
chunk_too_big_up_to_zero(length, silence_threshold, max_chunk_length) ==
    length > max_chunk_length /\ silence_threshold <= 0

\* if len(ss) > max_chunk_length and silence_threshold < 0
chunk_too_big(length, silence_threshold, max_chunk_length) ==
    length > max_chunk_length /\ silence_threshold < 0

\* split_to_chunks_shorter_than_max: the pieces it returns, each with the
\* threshold of the pass that produced it, and the pieces it printed a
\* warning for, each with the threshold announced
RECURSIVE split_to_chunks_shorter_than_max(_, _, _, _)
RECURSIVE split_loop(_, _, _, _)
split_to_chunks_shorter_than_max(detector, audio_file, silence_threshold, max_chunk_length) ==
    split_loop(detector,
               split_on_silence(detected_cuts(detector, silence_threshold),
                                audio_file.from, audio_file.to),
               silence_threshold, max_chunk_length)
split_loop(detector, silent_spots, silence_threshold, max_chunk_length) ==
    IF silent_spots = <<>> THEN [output_chunks |-> <<>>, warnings |-> <<>>]
    ELSE LET ss == Head(silent_spots)
             rest == split_loop(detector, Tail(silent_spots), silence_threshold,
                                max_chunk_length)
         IN  IF chunk_too_big(PieceLen(ss), silence_threshold, max_chunk_length)
             THEN LET sub == split_to_chunks_shorter_than_max(detector, ss,
                                 silence_threshold + threshold_step, max_chunk_length)
                  IN  [output_chunks |-> sub.output_chunks \o rest.output_chunks,
                       warnings |-> << [from |-> ss.from, to |-> ss.to,
                                        threshold |-> silence_threshold + threshold_step] >>
                                    \o sub.warnings \o rest.warnings]
             ELSE [output_chunks |-> << [from |-> ss.from, to |-> ss.to,
                                         threshold |-> silence_threshold] >>
                                     \o rest.output_chunks,
                   warnings |-> rest.warnings]

\* the comparison that admits a chunk of exactly the maximum
fits_in_chunk_inclusive(current_len, next_len, max_chunk_length) ==
    current_len + next_len <= max_chunk_length

\* the comparison that leaves the length of the current chunk out
fits_in_chunk_alone(current_len, next_len, max_chunk_length) ==
    next_len < max_chunk_length

\* the comparison that closes a chunk one millisecond early
fits_in_chunk_leaving_room(current_len, next_len, max_chunk_length) ==
    current_len + next_len < max_chunk_length - 1

\* if len(output_chunks[-1]) + len(ss) < max_chunk_length
fits_in_chunk(current_len, next_len, max_chunk_length) ==
    current_len + next_len < max_chunk_length

\* the step whose else branch puts ss in the place of the last chunk
coalesce_step_overwriting(output_chunks, ss, max_chunk_length) ==
    LET last == output_chunks[Len(output_chunks)]
    IN  IF fits_in_chunk(ChunkLen(last), PieceLen(ss), max_chunk_length)
        THEN [output_chunks EXCEPT ![Len(output_chunks)] = Append(last, ss)]
        ELSE [output_chunks EXCEPT ![Len(output_chunks)] = <<ss>>]

\* one round of the loop of generate_audio_chunks
coalesce_step(output_chunks, ss, max_chunk_length) ==
    LET last == output_chunks[Len(output_chunks)]
    IN  IF fits_in_chunk(ChunkLen(last), PieceLen(ss), max_chunk_length)
        THEN [output_chunks EXCEPT ![Len(output_chunks)] = Append(last, ss)]
        ELSE Append(output_chunks, <<ss>>)

RECURSIVE coalesce(_, _, _)
coalesce(output_chunks, silent_spots, max_chunk_length) ==
    IF silent_spots = <<>> THEN output_chunks
    ELSE coalesce(coalesce_step(output_chunks, Head(silent_spots), max_chunk_length),
                  Tail(silent_spots), max_chunk_length)

\* generate_audio_chunks applied to the pieces of
\* split_to_chunks_shorter_than_max
generate_audio_chunks(silent_spots, max_chunk_length) ==
    coalesce(<< <<silent_spots[1]>> >>, Tail(silent_spots), max_chunk_length)

(***************************************************************************)
(* SpecChunks: generate_audio_chunks applied to one audio file.  The small *)
(* inputs are every length up to MaxAudio with every detector over the     *)
(* thresholds the recursion can reach; the inputs of the reference clip    *)
(* are the 70,000 ms clip with the defaults of ds_creator.py and a first   *)
(* pass that finds any of the four boundaries.  arg holds the input and,   *)
(* once generate_audio_chunks has returned, its result.                    *)
(***************************************************************************)
SilenceThresholds == {-10, -7, -5, 0, 3}
MaxChunkLengths == {2, 3}

\* the thresholds of the passes that can follow a first pass
Levels(silence_threshold) ==
    {silence_threshold} \cup
    {t \in silence_threshold..(threshold_step - 1) :
        (t - silence_threshold) % threshold_step = 0}

ReferenceClip == 70000
ReferenceCuts == {10000, 35000, 42000, 68000}

ChunkInput(length, silence_threshold, max_chunk_length, detector) ==
    [audio_file |-> [from |-> 0, to |-> length],
     silence_threshold |-> silence_threshold,
     max_chunk_length |-> max_chunk_length,
     detector |-> detector,
     silent_spots |-> <<>>, warnings |-> <<>>, output_chunks |-> <<>>]

ChunksInit ==
    /\ \/ \E length \in 1..MaxAudio, t \in SilenceThresholds, m \in MaxChunkLengths :
             \E detector \in [Levels(t) -> SUBSET (1..(length - 1))] :
                 arg = ChunkInput(length, t, m, detector)
       \/ \E first \in SUBSET ReferenceCuts, later \in {{}, ReferenceCuts} :
             arg = ChunkInput(ReferenceClip, SILENCE_THRESHOLD, MAX_CHUNK_LENGTH,
                              [t \in Levels(SILENCE_THRESHOLD) |->
                                  IF t = SILENCE_THRESHOLD THEN first ELSE later])
    /\ pc = "audio"
    /\ aws = FALSE
    /\ fs = EmptyFs
    /\ bucket = EmptyFs
    /\ after = "off"
    /\ dataset_list = <<>>
    /\ dsi = 0
    /\ progress_file_data = <<>>
    /\ current = 0
    /\ last_processed_chunk = -1
    /\ current_length = 0
    /\ i = 0
    /\ runs = 0
    /\ calls = <<>>
    /\ transcribed = {}
    /\ start_doc = <<>>
    /\ failed = <<>>
    /\ retry = <<>>
    /\ seen = {}
    /\ written = NothingWritten
    /\ drivers = <<>>

\* audio_chunks = generate_audio_chunks(audio)
GenerateAudioChunks ==
    /\ pc = "audio"
    /\ LET split == split_to_chunks_shorter_than_max(arg.detector, arg.audio_file,
                        arg.silence_threshold, arg.max_chunk_length)
       IN  arg' = [arg EXCEPT !.silent_spots = split.output_chunks,
                              !.warnings = split.warnings,
                              !.output_chunks = generate_audio_chunks(split.output_chunks,
                                                    arg.max_chunk_length)]
    /\ pc' = "chunks"
    /\ UNCHANGED <<disk, locals, history, seen, written, drivers>>

ChunksNext == GenerateAudioChunks

SpecChunks == ChunksInit /\ [][ChunksNext]_vars

\* the pieces of the chunks, in output order
RECURSIVE PiecesOf(_)
PiecesOf(output_chunks) ==
    IF output_chunks = <<>> THEN <<>>
    ELSE Head(output_chunks) \o PiecesOf(Tail(output_chunks))

\* the audio of a sequence of pieces played one after the other: its maximal
\* spans of the source
RECURSIVE AudioOf(_)
AudioOf(pieces) ==
    IF pieces = <<>> THEN <<>>
    ELSE LET before == AudioOf(SubSeq(pieces, 1, Len(pieces) - 1))
             ss == pieces[Len(pieces)]
         IN  IF PieceLen(ss) = 0 THEN before
             ELSE IF before # <<>> /\ before[Len(before)][2] = ss.from
                  THEN [before EXCEPT ![Len(before)] = <<before[Len(before)][1], ss.to>>]
                  ELSE Append(before, <<ss.from, ss.to>>)

RECURSIVE SumOfLengths(_)
SumOfLengths(output_chunks) ==
    IF output_chunks = <<>> THEN 0
    ELSE ChunkLen(Head(output_chunks)) + SumOfLengths(Tail(output_chunks))

(***************************************************************************)
(* C13  Segmentation is lossless and order-preserving: for every audio     *)
(* file and every detector that partitions what it is given, the chunks    *)
(* generate_audio_chunks returns, played in output order, are the source   *)
(* audio, their lengths add up to its length, and their pieces are the     *)
(* pieces of split_to_chunks_shorter_than_max, each once and in order.     *)
(***************************************************************************)
C13_SegmentationIsLossless ==
    pc = "chunks" =>
        /\ AudioOf(PiecesOf(arg.output_chunks))
             = << <<arg.audio_file.from, arg.audio_file.to>> >>
        /\ SumOfLengths(arg.output_chunks) = PieceLen(arg.audio_file)
        /\ PiecesOf(arg.output_chunks) = arg.silent_spots
        /\ \A x \in 1..Len(arg.output_chunks) : arg.output_chunks[x] # <<>>

\* an oversized piece was split again, pieces were coalesced and more than
\* one chunk came out
C13_Witness ==
    /\ pc = "chunks"
    /\ arg.warnings # <<>>
    /\ Len(arg.output_chunks) >= 2
    /\ \E x \in 1..Len(arg.output_chunks) : Len(arg.output_chunks[x]) >= 2

(***************************************************************************)
(* C14  Length bound: a chunk returned by generate_audio_chunks is longer  *)
(* than max_chunk_length only if it is one single piece that came out of a *)
(* detection pass whose threshold had reached the sentinel (>= 0), and     *)
(* every chunk coalesced from two or more pieces is strictly shorter than  *)
(* max_chunk_length.                                                       *)
(***************************************************************************)
C14_LengthBound ==
    pc = "chunks" =>
        \A x \in 1..Len(arg.output_chunks) :
            LET chunk == arg.output_chunks[x]
            IN  /\ ChunkLen(chunk) > arg.max_chunk_length =>
                      (Len(chunk) = 1 /\ chunk[1].threshold >= 0)
                /\ Len(chunk) >= 2 => ChunkLen(chunk) < arg.max_chunk_length

\* after at least one relaxation an oversized piece was returned as it was,
\* next to a chunk coalesced from two pieces
C14_Witness ==
    /\ pc = "chunks"
    /\ arg.silence_threshold < 0
    /\ \E x \in 1..Len(arg.output_chunks) :
          /\ ChunkLen(arg.output_chunks[x]) > arg.max_chunk_length
          /\ arg.output_chunks[x][1].threshold >= 0
    /\ \E x \in 1..Len(arg.output_chunks) : Len(arg.output_chunks[x]) >= 2

(***************************************************************************)
(* C15  Degraded segments are flagged: for every initial                   *)
(* silence_threshold, every piece longer than max_chunk_length that        *)
(* split_to_chunks_shorter_than_max returns lies within a piece for which  *)
(* a warning was printed.                                                  *)
(***************************************************************************)
C15_DegradedSegmentsAreFlagged ==
    pc = "chunks" =>
        \A x \in 1..Len(arg.silent_spots) :
            PieceLen(arg.silent_spots[x]) > arg.max_chunk_length =>
                \E w \in 1..Len(arg.warnings) :
                    /\ arg.warnings[w].from <= arg.silent_spots[x].from
                    /\ arg.silent_spots[x].to <= arg.warnings[w].to

(***************************************************************************)
(* C16  Reference trace: for the 70,000 ms clip whose first detection pass *)
(* returns [0,10000), [10000,35000), [35000,42000), [42000,68000),         *)
(* [68000,70000), with max_chunk_length = 30,000, generate_audio_chunks    *)
(* returns [0,10000), [10000,35000), [35000,68000), [68000,70000).         *)
(***************************************************************************)
ReferenceTrace ==
    /\ pc = "chunks"
    /\ arg.audio_file = [from |-> 0, to |-> ReferenceClip]
    /\ arg.max_chunk_length = MAX_CHUNK_LENGTH
    /\ arg.detector[arg.silence_threshold] = ReferenceCuts

ChunkSpans(output_chunks) ==
    [x \in 1..Len(output_chunks) |-> AudioOf(output_chunks[x])]

C16_ReferenceTrace ==
    ReferenceTrace =>
        ChunkSpans(arg.output_chunks)
          = << << <<0, 10000>> >>, << <<10000, 35000>> >>,
               << <<35000, 68000>> >>, << <<68000, 70000>> >> >>

(***************************************************************************)
(* C16 (amended)  For the same clip and pieces generate_audio_chunks       *)
(* returns [0,10000), [10000,35000), [35000,42000), [42000,70000):         *)
(* 7,000 + 26,000 is not below 30,000, 26,000 + 2,000 is.                  *)
(***************************************************************************)
C16_ReferenceTraceByTheRule ==
    ReferenceTrace =>
        /\ ChunkSpans(arg.output_chunks)
             = << << <<0, 10000>> >>, << <<10000, 35000>> >>,
                  << <<35000, 42000>> >>, << <<42000, 70000>> >> >>
        /\ Len(arg.output_chunks[4]) = 2

C16_Witness ==
    /\ ReferenceTrace
    /\ Len(arg.silent_spots) = 5
    /\ arg.warnings = <<>>

(***************************************************************************)
(* SpecArchive: encrypt_and_zip applied to one file or directory tree X    *)
(* and decrypt_and_unzip applied to the encrypted archive, where X was     *)
(* archived or where only the archive arrived, with any destination        *)
(* directory; each call returns or raises at one of its steps.  arg holds  *)
(* the path of X, local storage as it was, the archive, the destination,   *)
(* the returned member paths and the step that raised.                     *)
(***************************************************************************)
ArchiveRoots == {<< <<"d1">> >>, dataset_path("d1")}
ArchiveFiles == {<< <<"d1", "txt">> >>, output_file_name("d1")}
ArchiveDirs == {NoDir, << <<"tmp">> >>, datasets_dir}

\* what a directory X may hold below its root
TreeEntries(root) ==
    [q \in {PathJoin(root, << <<"a", "txt">> >>),
            PathJoin(root, << <<"sub">>, <<"b", "txt">> >>),
            PathJoin(root, << <<"sub">> >>),
            PathJoin(root, << <<"empty">> >>)} |->
        IF q = PathJoin(root, << <<"a", "txt">> >>) THEN TextFile(<<0>>)
        ELSE IF q = PathJoin(root, << <<"sub">>, <<"b", "txt">> >>) THEN TextFile(<<1>>)
        ELSE Directory]

Restrict(f, paths) == [q \in paths |-> f[q]]

ArchiveInputs ==
    {[path |-> p, fs |-> FsPut(EmptyFs, p, TextFile(<<0>>))] : p \in ArchiveFiles}
    \cup {[path |-> r, fs |-> FsPut(EmptyFs, r, DatasetDir("d1"))] : r \in ArchiveRoots}
    \cup UNION {{[path |-> r,
                  fs |-> FsPut(Restrict(TreeEntries(r), below), r, Directory)] :
                    below \in SUBSET DOMAIN TreeEntries(r)} : r \in ArchiveRoots}

ArchiveInit ==
    /\ \E x \in ArchiveInputs :
          /\ fs = x.fs
          /\ arg = [path |-> x.path, original |-> x.fs, crypt_file |-> <<>>,
                    dest_dir |-> NoDir, files |-> {}, failure |-> "none"]
    /\ pc = "plain"
    /\ aws = FALSE
    /\ bucket = EmptyFs
    /\ after = "off"
    /\ dataset_list = <<>>
    /\ dsi = 0
    /\ progress_file_data = <<>>
    /\ current = 0
    /\ last_processed_chunk = -1
    /\ current_length = 0
    /\ i = 0
    /\ runs = 0
    /\ calls = <<>>
    /\ transcribed = {}
    /\ start_doc = <<>>
    /\ failed = <<>>
    /\ retry = <<>>
    /\ seen = {}
    /\ written = NothingWritten
    /\ drivers = <<>>

\* wch.encrypt_and_zip(path, dst_dir)
ArchiveEncrypt(dst_dir, failure) ==
    /\ pc = "plain"
    /\ fs' = encrypt_and_zip_until(fs, arg.path, dst_dir, failure)
    /\ arg' = [arg EXCEPT !.crypt_file = encrypt_and_zip_path(fs, arg.path, dst_dir),
                          !.failure = failure]
    /\ pc' = IF failure = "none" THEN "encrypted" ELSE "raised"
    /\ UNCHANGED <<aws, bucket, locals, history, seen, written, drivers>>

\* wch.decrypt_and_unzip(crypt_file, dst_dir); elsewhere: local storage holds
\* nothing but the archive
ArchiveDecrypt(dst_dir, elsewhere, failure) ==
    /\ pc = "encrypted"
    /\ LET f1 == IF elsewhere THEN Restrict(fs, {arg.crypt_file}) ELSE fs
       IN  /\ fs' = decrypt_and_unzip_until(f1, arg.crypt_file, dst_dir, failure)
           /\ arg' = [arg EXCEPT !.dest_dir = dst_dir,
                                 !.failure = failure,
                                 !.files = IF failure = "none"
                                           THEN {unzip_result(f1[arg.crypt_file].members,
                                                              dst_dir)[x] :
                                                   x \in 1..Len(f1[arg.crypt_file].members)}
                                           ELSE {}]
    /\ pc' = IF failure = "none" THEN "decrypted" ELSE "raised"
    /\ UNCHANGED <<aws, bucket, locals, history, seen, written, drivers>>

ArchiveNext ==
    \/ \E dst_dir \in ArchiveDirs, failure \in {"none", "encryption", "write"} :
          ArchiveEncrypt(dst_dir, failure)
    \/ \E dst_dir \in ArchiveDirs, elsewhere \in BOOLEAN,
          failure \in {"none", "decryption", "write", "extraction"} :
          ArchiveDecrypt(dst_dir, elsewhere, failure)

SpecArchive == ArchiveInit /\ [][ArchiveNext]_vars

\* the tree at a path: the files and directories at and below it, named
\* relative to it
TreeAt(f, root) ==
    LET below == {q \in DOMAIN f : q = root \/ IsPrefix(root, q)}
        dirs == UNION {{SubSeq(q, 1, n) : n \in Len(root)..(Len(q) - 1)} : q \in below}
    IN  {<<SubSeq(q, Len(root) + 1, Len(q)), f[q]>> : q \in below}
        \cup {<<SubSeq(d, Len(root) + 1, Len(d)), Directory>> : d \in dirs}

\* where extraction puts the root of X
Landing ==
    PathJoin(arg.dest_dir,
             IF isfile(arg.original, arg.path) THEN arg.path ELSE <<PathName(arg.path)>>)

(***************************************************************************)
(* C17  Archive round trip: for every file or directory tree X (nested and *)
(* empty sub-directories included) and every destination directory,        *)
(* decrypt_and_unzip of the result of encrypt_and_zip(X) puts a tree equal *)
(* to X, content and relative layout, under the destination, and the       *)
(* member paths it returns are the paths of the extracted files.           *)
(***************************************************************************)
C17_ArchiveRoundTrip ==
    pc = "decrypted" =>
        /\ TreeAt(fs, Landing) = TreeAt(arg.original, arg.path)
        /\ arg.files = walk_files(fs, Landing)

(***************************************************************************)
(* C19  No intermediate plaintext persists: once encrypt_and_zip or        *)
(* decrypt_and_unzip has returned or raised (at encryption, write,         *)
(* decryption or extraction), local storage holds no unencrypted zip file. *)
(***************************************************************************)
C19_NoPlaintextPersists ==
    pc \in {"encrypted", "decrypted", "raised"} =>
        \A q \in DOMAIN fs : ~(fs[q].kind = "archive" /\ ~fs[q].crypt)

(***************************************************************************)
(* C18  Every object of the bucket is an encrypted archive: in every       *)
(* reachable state of the driver the dataset archives, the output          *)
(* artifacts and the ledger mirror are encrypted, and an upload_to_aws of  *)
(* any local file or dataset from that state, on each branch of the        *)
(* choice of the key, leaves only encrypted archives.                      *)
(***************************************************************************)
OnlyEncryptedArchives(b) ==
    \A k \in DOMAIN b : b[k].kind = "archive" /\ b[k].crypt

C18_OnlyEncryptedObjects ==
    /\ OnlyEncryptedArchives(bucket)
    /\ aws =>
          \A filepath \in DOMAIN fs, dest_s3_dir \in {NoDir, OUTPUT_DIR} :
              OnlyEncryptedArchives(
                  upload_to_aws(fs, bucket, filepath, PathParent(filepath), dest_s3_dir))

\* the bucket holds the two dataset archives, the ledger mirror and an
\* output artifact
C18_Witness ==
    /\ aws
    /\ ledger_mirror_key \in DOMAIN bucket
    /\ upload_key(fs, output_file_name("d1"), OUTPUT_DIR, NoDir) \in DOMAIN bucket
    /\ FsExists(fs, output_file_name("d1"))
    /\ Cardinality(DOMAIN bucket) = 4

(***************************************************************************)
(* C20  Missing remote object is not an error: where the driver calls      *)
(* download_from_aws for a path whose key is not in the bucket, the call   *)
(* leaves local storage as it is and the driver goes on as it does without *)
(* a remote copy: the logger reads the local progress file or starts an    *)
(* empty ledger, the partial output stays as it is, and the dataset is     *)
(* loaded from the local directory.                                        *)
(***************************************************************************)
KeyMissing(filepath) == ~check_if_object_exists_in_bucket(bucket, download_key(filepath))

C20_MissingObjectIsNotAnError ==
    [][ /\ (aws /\ pc = "read" /\ KeyMissing(progress_filename)) =>
              /\ download_from_aws(fs, bucket, progress_filename, NoDir) = fs
              /\ pc' # "off" =>
                    /\ progress_file_data' = local_ledger
                    /\ pc' = IF FsExists(fs, progress_filename) THEN "loop" ELSE "mirror"
                    /\ fs' = IF FsExists(fs, progress_filename) THEN fs
                             ELSE write_progress_file(fs, <<>>)
        /\ (aws /\ pc = "decide" /\ KeyMissing(output_file_name(ds_name))) =>
              /\ download_from_aws(fs, bucket, output_file_name(ds_name), NoDir) = fs
              /\ pc' \in {"load", "loop", "off"}
              /\ fs' = fs
        /\ (aws /\ pc = "load" /\ KeyMissing(dataset_path(ds_name))) =>
              /\ download_from_aws(fs, bucket, dataset_path(ds_name), NoDir) = fs
              /\ isdir(fs, dataset_path(ds_name)) ]_vars

\* a remote-backed run resumed a dataset from the local ledger and the local
\* output although the bucket held neither the ledger nor the output under
\* the keys of the download
C20_Witness ==
    /\ aws
    /\ pc = "load"
    /\ runs = 2
    /\ start_doc # <<>>
    /\ last_processed_chunk >= 0
    /\ KeyMissing(progress_filename)
    /\ KeyMissing(output_file_name(ds_name))
    /\ OutputLines(fs, ds_name) # <<>>

(***************************************************************************)
(* C21  Corrupt ledger is fatal: when the progress file exists and cannot  *)
(* be parsed, the construction of the logger raises and the run ends: the  *)
(* progress file and the bucket stay as they are, no unit is handed to     *)
(* process_sample; the empty ledger is written only where the file was     *)
(* absent.                                                                 *)
(***************************************************************************)
LedgerUnparsable(f) ==
    FsExists(f, progress_filename) /\ f[progress_filename].kind # "json"

C21_CorruptLedgerIsFatal ==
    [][ pc = "read" =>
          /\ LedgerUnparsable(download_progress_file(fs, bucket, aws)) =>
                /\ pc' = "off"
                /\ fs' = download_progress_file(fs, bucket, aws)
                /\ LedgerUnparsable(fs')
                /\ bucket' = bucket
                /\ calls' = <<>>
                /\ transcribed' = transcribed
          /\ (pc' # "off" /\ fs' # download_progress_file(fs, bucket, aws)) =>
                /\ ~FsExists(download_progress_file(fs, bucket, aws), progress_filename)
                /\ fs' = write_progress_file(fs, <<>>) ]_vars

\* a run has ended on a progress file that cannot be parsed
C21_Witness ==
    /\ pc = "off"
    /\ runs = 1
    /\ LedgerUnparsable(fs)
    /\ calls = <<>>

(***************************************************************************)
(* C22  Decryption failure halts: when the object a download of the driver *)
(* finds is no token of the driver's key (encrypted with another key, or   *)
(* damaged), the step ends the run: local storage gains nothing but the    *)
(* downloaded archive, still encrypted, what was there stays as it was, no *)
(* unit is handed to process_sample and the bucket stays as it is.         *)
(***************************************************************************)
\* the paths the next step of the driver downloads
DownloadsAt ==
    IF ~aws THEN {}
    ELSE IF pc = "read" THEN {progress_filename}
    ELSE IF pc = "load" THEN {dataset_path(ds_name)}
    ELSE IF /\ pc = "decide"
            /\ ~is_dataset_processed(progress_file_data, current)
            /\ get_dataset_last_processed_chunk(progress_file_data, current) >= 0
         THEN {output_file_name(ds_name)}
    ELSE {}

\* the object a download of filepath finds cannot be decrypted
ObjectNotDecryptable(filepath) ==
    /\ check_if_object_exists_in_bucket(bucket, download_key(filepath))
    /\ ~bucket[download_key(filepath)].intact

C22_DecryptionFailureHalts ==
    [][ \A filepath \in DownloadsAt :
          ObjectNotDecryptable(filepath) =>
             /\ pc' = "off"
             /\ bucket' = bucket
             /\ calls' = calls
             /\ transcribed' = transcribed
             /\ \A q \in DOMAIN fs : q \in DOMAIN fs' /\ fs'[q] = fs[q]
             /\ \A q \in (DOMAIN fs') \ (DOMAIN fs) :
                   fs'[q] = bucket[download_key(filepath)] /\ fs'[q].crypt ]_vars

\* a run has ended on the archive of a dataset it could not decrypt: the
\* archive is in local storage, the dataset is not
C22_Witness ==
    /\ pc = "off"
    /\ aws
    /\ \E q \in DOMAIN fs : ~fs[q].intact
    /\ ~isdir(fs, dataset_path("d2"))
    /\ <<"d1", 0>> \in transcribed

(***************************************************************************)
(* C23  Completion ordering: a step of the running driver that deletes the *)
(* working directory of a dataset is taken only when every unit of the     *)
(* dataset was handed to process_sample and returned, and the persisted    *)
(* record of the dataset (the local progress file and, in remote-backed    *)
(* mode, its mirror) has processed = true.                                 *)
(***************************************************************************)
WorkingDirDeleted(d) ==
    pc # "off" /\ isdir(fs, dataset_path(d)) /\ ~isdir(fs', dataset_path(d))

C23_CompletionOrdering ==
    [][ \A d \in DatasetNames :
          WorkingDirDeleted(d) =>
             /\ \A u \in 0..(NumUnits(d) - 1) : <<d, u>> \in transcribed
             /\ RecordOf(local_ledger, d).processed
             /\ RecordOf(local_ledger', d).processed
             /\ aws => RecordOf(ledger_mirror, d).processed ]_vars

\* the working directory of the first dataset is gone, its record is
\* processed, and the run goes on
C23_Witness ==
    /\ pc = "loop"
    /\ dsi = 2
    /\ ~isdir(fs, dataset_path("d1"))
    /\ RecordOf(local_ledger, "d1").processed
    /\ RecordOf(PersistedLedger(fs, bucket, aws), "d1").processed

(***************************************************************************)
(* C24  Threshold relaxation terminates: generate_audio_chunks returns for *)
(* every audio, maximum and initial threshold, also when no pass splits    *)
(* anything.  Every pass runs at the initial threshold plus a multiple of  *)
(* 5; a pass is followed by a deeper one only while its threshold is below *)
(* 0; and for a negative initial threshold t no piece and no warning comes *)
(* from deeper than ceil(-t / 5) levels (10 for the default of -50), none  *)
(* from deeper than level 0 when t >= 0.                                   *)
(***************************************************************************)
\* the level of the pass with the given threshold, the first pass on level 0
RelaxationDepth(threshold) == (threshold - arg.silence_threshold) \div threshold_step

\* ceil(-t / 5) for the initial threshold t when negative, else 0
RelaxationBound ==
    IF arg.silence_threshold < 0
    THEN (threshold_step - 1 - arg.silence_threshold) \div threshold_step
    ELSE 0

C24_RelaxationTerminates ==
    pc = "chunks" =>
       /\ arg.silent_spots # <<>>
       /\ \A x \in 1..Len(arg.silent_spots) :
             LET ss == arg.silent_spots[x]
             IN  /\ (ss.threshold - arg.silence_threshold) % 5 = 0
                 /\ RelaxationDepth(ss.threshold) \in 0..RelaxationBound
                 /\ RelaxationDepth(ss.threshold) > 0 => ss.threshold - 5 < 0
       /\ \A x \in 1..Len(arg.warnings) :
             LET w == arg.warnings[x]
             IN  /\ (w.threshold - arg.silence_threshold) % 5 = 0
                 /\ RelaxationDepth(w.threshold) \in 1..RelaxationBound
                 /\ w.threshold - 5 < 0
       /\ Len(arg.warnings) <= RelaxationBound * Len(arg.silent_spots)

\* the reference clip with a detector that never splits: ten passes relax
\* the default threshold to 0 and one piece, the whole clip, is returned
C24_Witness ==
    /\ pc = "chunks"
    /\ arg.silence_threshold = -50
    /\ \A t \in DOMAIN arg.detector : arg.detector[t] = {}
    /\ Len(arg.warnings) = 10
    /\ arg.silent_spots = << [from |-> 0, to |-> ReferenceClip, threshold |-> 0] >>

(***************************************************************************)
(* C25  Greedy coalescing rule: generate_audio_chunks adds the next piece  *)
(* to the current segment exactly when the length of the segment so far    *)
(* plus the length of the piece is below the maximum, strictly; otherwise  *)
(* the piece starts a new segment.  So every piece after the first of a    *)
(* segment fitted below the maximum when it was added, and for every two   *)
(* adjacent segments the length of the earlier plus the length of the      *)
(* first piece of the later is at least the maximum.                       *)
(***************************************************************************)
C25_GreedyCoalescing ==
    pc = "chunks" =>
       /\ PiecesOf(arg.output_chunks) = arg.silent_spots
       /\ \A x \in 1..Len(arg.output_chunks) :
             /\ arg.output_chunks[x] # <<>>
             /\ \A y \in 2..Len(arg.output_chunks[x]) :
                   ChunkLen(SubSeq(arg.output_chunks[x], 1, y - 1))
                     + PieceLen(arg.output_chunks[x][y]) < arg.max_chunk_length
       /\ \A x \in 1..(Len(arg.output_chunks) - 1) :
             ChunkLen(arg.output_chunks[x]) + PieceLen(arg.output_chunks[x + 1][1])
               >= arg.max_chunk_length

\* a segment of two pieces is followed by a segment whose first piece would
\* have made it exactly the maximum
C25_Witness ==
    /\ pc = "chunks"
    /\ \E x \in 1..(Len(arg.output_chunks) - 1) :
          /\ Len(arg.output_chunks[x]) >= 2
          /\ ChunkLen(arg.output_chunks[x]) + PieceLen(arg.output_chunks[x + 1][1])
               = arg.max_chunk_length

(***************************************************************************)
(* C26  Cleanup is eventually reached: when a run has visited every        *)
(* discovered dataset and returns, no dataset whose persisted record has   *)
(* processed = true has its working directory left in local storage, also  *)
(* when an earlier run was interrupted between mark_dataset_as_processed   *)
(* and the deletion.                                                       *)
(***************************************************************************)
\* generate_transcript returns from the loop over the datasets
RunReturns == pc = "loop" /\ ~(dsi <= Len(dataset_list)) /\ pc' = "off"

C26_CleanupIsReached ==
    [][ RunReturns =>
          \A d \in DatasetNames :
              RecordOf(local_ledger', d).processed => ~isdir(fs', dataset_path(d)) ]_vars

(***************************************************************************)
(* SpecDrivers: two processes of the driver run side by side in local mode *)
(* in the same working directory, so they share the progress file, the     *)
(* datasets and the output files.  Each process has the memory of          *)
(* generate_transcript and of its own WhisperProgressLogger; a step is     *)
(* what one process does up to and including one access to local storage.  *)
(* A process that has returned or raised is "done".                        *)
(***************************************************************************)
DriverIds == {"A", "B"}

IdleDriver ==
    [pc |-> "off", dataset_list |-> <<>>, dsi |-> 0, progress_file_data |-> <<>>,
     current |-> 0, last_processed_chunk |-> -1, current_length |-> 0, i |-> 0]

DriversInit ==
    /\ aws = FALSE
    /\ fs = local_datasets
    /\ bucket = EmptyFs
    /\ pc = "drivers"
    /\ after = "off"
    /\ dataset_list = <<>>
    /\ dsi = 0
    /\ progress_file_data = <<>>
    /\ current = 0
    /\ last_processed_chunk = -1
    /\ current_length = 0
    /\ i = 0
    /\ runs = 0
    /\ calls = <<>>
    /\ transcribed = {}
    /\ start_doc = <<>>
    /\ failed = <<>>
    /\ retry = <<>>
    /\ arg = <<>>
    /\ seen = {}
    /\ written = NothingWritten
    /\ drivers = [p \in DriverIds |-> IdleDriver]

\* the dataset process p is at
DriverDsName(p) == drivers[p].dataset_list[drivers[p].dsi]

\* process p goes on with memory m; the other processes stay where they are
DriverStep(p, m) ==
    /\ drivers' = [drivers EXCEPT ![p] = m]
    /\ UNCHANGED <<aws, bucket, pc, locals, history, arg, seen, written>>

\* main .. generate_transcript up to get_dataset_list
DriverStart(p) ==
    /\ drivers[p].pc = "off"
    /\ DriverStep(p, [drivers[p] EXCEPT !.pc = "read",
                                        !.dataset_list = get_dataset_list(fs, bucket, FALSE),
                                        !.dsi = 1])
    /\ UNCHANGED fs

\* WhisperProgressLogger.__init__ and _read_progress_file
DriverReadProgressFile(p) ==
    /\ drivers[p].pc = "read"
    /\ IF ~progress_file_missing(fs)
       THEN /\ DriverStep(p, [drivers[p] EXCEPT !.pc = "loop",
                                  !.progress_file_data = fs[progress_filename].doc])
            /\ UNCHANGED fs
       ELSE /\ DriverStep(p, [drivers[p] EXCEPT !.pc = "loop", !.progress_file_data = <<>>])
            /\ fs' = write_progress_file(fs, <<>>)

\* progress.check_dataset_progress(ds_name)
DriverCheckDatasetProgress(p) ==
    /\ drivers[p].pc = "loop"
    /\ drivers[p].dsi <= Len(drivers[p].dataset_list)
    /\ LET doc == check_dataset_progress_data(drivers[p].progress_file_data, DriverDsName(p))
       IN  /\ DriverStep(p, [drivers[p] EXCEPT
                  !.pc = "decide",
                  !.progress_file_data = doc,
                  !.current = check_dataset_progress_current(drivers[p].progress_file_data,
                                                             DriverDsName(p))])
           /\ IF FindDataset(drivers[p].progress_file_data, DriverDsName(p)) = 0
              THEN fs' = write_progress_file(fs, doc)
              ELSE UNCHANGED fs

\* is_dataset_processed and the resume decision
DriverResumeOrStart(p) ==
    /\ drivers[p].pc = "decide"
    /\ IF is_dataset_processed(drivers[p].progress_file_data, drivers[p].current)
       THEN DriverStep(p, [drivers[p] EXCEPT !.pc = "loop", !.dsi = @ + 1])
       ELSE DriverStep(p, [drivers[p] EXCEPT
                !.pc = "load",
                !.last_processed_chunk =
                    get_dataset_last_processed_chunk(drivers[p].progress_file_data,
                                                     drivers[p].current),
                !.current_length =
                    get_dataset_total_processed_length(drivers[p].progress_file_data,
                                                       drivers[p].current)])
    /\ UNCHANGED fs

\* load_dataset and open(output_file_name, 'a'); load_from_disk raises when
\* the other process has removed the directory
DriverLoadDataset(p) ==
    /\ drivers[p].pc = "load"
    /\ LET out == output_file_name(DriverDsName(p))
       IN  IF isdir(fs, dataset_path(DriverDsName(p)))
           THEN /\ fs' = IF FsExists(fs, out) THEN fs ELSE FsPut(fs, out, TextFile(<<>>))
                /\ DriverStep(p, [drivers[p] EXCEPT !.pc = "unit", !.i = 0])
           ELSE /\ UNCHANGED fs
                /\ DriverStep(p, [drivers[p] EXCEPT !.pc = "done"])

\* if i <= last_processed_chunk: continue
DriverSkipUnit(p) ==
    /\ drivers[p].pc = "unit"
    /\ drivers[p].i < NumUnits(DriverDsName(p))
    /\ chunk_already_processed(drivers[p].i, drivers[p].last_processed_chunk)
    /\ DriverStep(p, [drivers[p] EXCEPT !.i = @ + 1])
    /\ UNCHANGED fs

\* the else branch up to file.flush(); process_sample raises when the other
\* process has removed the directory
DriverProcessUnit(p) ==
    /\ drivers[p].pc = "unit"
    /\ drivers[p].i < NumUnits(DriverDsName(p))
    /\ ~chunk_already_processed(drivers[p].i, drivers[p].last_processed_chunk)
    /\ LET out == output_file_name(DriverDsName(p))
       IN  IF isdir(fs, dataset_path(DriverDsName(p)))
           THEN /\ fs' = FsPut(fs, out, TextFile(Append(fs[out].lines, drivers[p].i)))
                /\ DriverStep(p, [drivers[p] EXCEPT
                       !.pc = "update",
                       !.current_length = @ + UnitLen(DriverDsName(p), drivers[p].i)])
           ELSE /\ UNCHANGED fs
                /\ DriverStep(p, [drivers[p] EXCEPT !.pc = "done"])

\* progress.update_dataset_progress(i, current_length)
DriverUpdateDatasetProgress(p) ==
    /\ drivers[p].pc = "update"
    /\ LET doc == update_dataset_progress_data(drivers[p].progress_file_data,
                      drivers[p].current, drivers[p].i, drivers[p].current_length)
       IN  /\ fs' = write_progress_file(fs, doc)
           /\ DriverStep(p, [drivers[p] EXCEPT !.pc = "unit", !.progress_file_data = doc,
                                               !.i = @ + 1])

\* progress.mark_dataset_as_processed()
DriverMarkDatasetAsProcessed(p) ==
    /\ drivers[p].pc = "unit"
    /\ ~(drivers[p].i < NumUnits(DriverDsName(p)))
    /\ LET doc == mark_dataset_as_processed_data(drivers[p].progress_file_data,
                                                 drivers[p].current)
       IN  /\ fs' = write_progress_file(fs, doc)
           /\ DriverStep(p, [drivers[p] EXCEPT !.pc = "rmtree", !.progress_file_data = doc])

\* shutil.rmtree(dir_path); it raises when the other process has removed the
\* directory
DriverRemoveWorkingDir(p) ==
    /\ drivers[p].pc = "rmtree"
    /\ IF FsExists(fs, dataset_path(DriverDsName(p)))
       THEN /\ fs' = FsDel(fs, dataset_path(DriverDsName(p)))
            /\ DriverStep(p, [drivers[p] EXCEPT !.pc = "loop", !.dsi = @ + 1])
       ELSE /\ UNCHANGED fs
            /\ DriverStep(p, [drivers[p] EXCEPT !.pc = "done"])

\* generate_transcript returns
DriverFinish(p) ==
    /\ drivers[p].pc = "loop"
    /\ ~(drivers[p].dsi <= Len(drivers[p].dataset_list))
    /\ DriverStep(p, [drivers[p] EXCEPT !.pc = "done"])
    /\ UNCHANGED fs

DriversNext ==
    \E p \in DriverIds :
        \/ DriverStart(p)
        \/ DriverReadProgressFile(p)
        \/ DriverCheckDatasetProgress(p)
        \/ DriverResumeOrStart(p)
        \/ DriverLoadDataset(p)
        \/ DriverSkipUnit(p)
        \/ DriverProcessUnit(p)
        \/ DriverUpdateDatasetProgress(p)
        \/ DriverMarkDatasetAsProcessed(p)
        \/ DriverRemoveWorkingDir(p)
        \/ DriverFinish(p)

SpecDrivers == DriversInit /\ [][DriversNext]_vars

(***************************************************************************)
(* C27  Unprotected concurrent writers: each of two drivers that run       *)
(* against the same progress file holds its own copy of the document and   *)
(* persists it by rewriting the whole file, without a lock and without     *)
(* looking at what the file holds: after every write of a driver the file  *)
(* is exactly that driver's copy.  So a state is reachable in which the    *)
(* checkpoint one driver has persisted has been overwritten by a write of  *)
(* the other, and the file no longer shows the last unit the first driver  *)
(* checkpointed.                                                           *)
(***************************************************************************)
C27_WholeDocumentRewrite ==
    [][ \A p \in DriverIds :
          drivers'[p] # drivers[p] =>
             /\ local_ledger' # local_ledger =>
                   local_ledger' = drivers'[p].progress_file_data
             /\ (/\ drivers[p].pc # "read"
                 /\ drivers'[p].progress_file_data # drivers[p].progress_file_data) =>
                   local_ledger' = drivers'[p].progress_file_data ]_vars

\* driver p has checkpointed unit 0 of d1 and waits for its next unit; the
\* progress file holds the copy of driver q, which shows no unit of d1
C27_Witness ==
    \E p \in DriverIds : \E q \in DriverIds \ {p} :
        /\ drivers[p].pc = "unit"
        /\ DriverDsName(p) = "d1"
        /\ RecordOf(drivers[p].progress_file_data, "d1").last_processed_chunk = 0
        /\ local_ledger = drivers[q].progress_file_data
        /\ HasRecord(local_ledger, "d1")
        /\ RecordOf(local_ledger, "d1").last_processed_chunk = -1

(***************************************************************************)
(* C28  The ledger never runs ahead of the output: when the local progress *)
(* file records lastProcessedIndex = k for a dataset, the results of units *)
(* 0 .. k are in the local output file; a unit the mirror records has been *)
(* written by process_sample's caller before; and in remote-backed mode    *)
(* every step that brings the record of a dataset in the local progress    *)
(* file or in the mirror to a new k is taken when the output object in the *)
(* bucket already contains the results of units 0 .. k.  Per unit the      *)
(* order is write and flush, upload of the output, checkpoint, mirror.     *)
(***************************************************************************)
\* the lines of the output object of dataset d in the bucket
UploadedOutput(b, d) ==
    LET key == upload_key(FsPut(EmptyFs, output_file_name(d), TextFile(<<>>)),
                          output_file_name(d), OUTPUT_DIR, NoDir)
    IN  IF key \in DOMAIN b
        THEN OutputLines(unzip(EmptyFs, b[key].members, NoDir), d)
        ELSE <<>>

\* the lines hold the results of units 0 .. k
HoldsUnitsUpTo(lines, k) == \A u \in 0..k : \E x \in 1..Len(lines) : lines[x] = u

C28_LedgerNeverAhead ==
    [][ \A d \in DatasetNames :
          /\ HoldsUnitsUpTo(OutputLines(fs', d), RecordOf(local_ledger', d).last_processed_chunk)
          /\ \A u \in 0..RecordOf(ledger_mirror', d).last_processed_chunk :
                <<d, u>> \in transcribed'
          /\ (/\ aws
              /\ RecordOf(local_ledger', d).last_processed_chunk
                   # RecordOf(local_ledger, d).last_processed_chunk) =>
                HoldsUnitsUpTo(UploadedOutput(bucket, d),
                               RecordOf(local_ledger', d).last_processed_chunk)
          /\ (RecordOf(ledger_mirror', d).last_processed_chunk
                # RecordOf(ledger_mirror, d).last_processed_chunk) =>
                HoldsUnitsUpTo(UploadedOutput(bucket, d),
                               RecordOf(ledger_mirror', d).last_processed_chunk) ]_vars

\* remote-backed mode: the mirror records the last unit of d1 and the output
\* object holds both results
C28_Witness ==
    /\ aws
    /\ RecordOf(ledger_mirror, "d1").last_processed_chunk = 1
    /\ RecordOf(local_ledger, "d1").last_processed_chunk = 1
    /\ HoldsUnitsUpTo(UploadedOutput(bucket, "d1"), 1)
    /\ HoldsUnitsUpTo(OutputLines(fs, "d1"), 1)

(***************************************************************************)
(* C29  Cumulative length: in the local progress file and in its mirror,   *)
(* totalProcessedLength of every dataset is the sum of the lengths of its  *)
(* units 0 .. lastProcessedIndex, 0 when lastProcessedIndex = -1, whatever *)
(* interruptions and resumes lie behind.                                   *)
(***************************************************************************)
\* the sum of d['len'] over the units 0 .. k of dataset d
RECURSIVE LengthUpTo(_, _)
LengthUpTo(d, k) == IF k < 0 THEN 0 ELSE UnitLen(d, k) + LengthUpTo(d, k - 1)

LengthIsCumulative(doc) ==
    \A x \in 1..Len(doc) :
        doc[x].total_processed_length
          = LengthUpTo(doc[x].ds_name, doc[x].last_processed_chunk)

C29_CumulativeLength ==
    /\ LengthIsCumulative(local_ledger)
    /\ LengthIsCumulative(ledger_mirror)

\* a run that resumed d1 after unit 0 has checkpointed unit 1
C29_Witness ==
    /\ runs >= 2
    /\ HasRecord(start_doc, "d1")
    /\ RecordOf(start_doc, "d1").last_processed_chunk = 0
    /\ RecordOf(start_doc, "d1").total_processed_length = 1
    /\ RecordOf(local_ledger, "d1").last_processed_chunk = 1
    /\ RecordOf(local_ledger, "d1").total_processed_length = 3

(***************************************************************************)
(* C30  Processed implies complete: in the local progress file and in its  *)
(* mirror, a record with processed = true has lastProcessedIndex = N - 1,  *)
(* N the number of units of its dataset, and every unit of the dataset has *)
(* been transcribed: no dataset is marked processed while a unit is still  *)
(* unprocessed.                                                            *)
(***************************************************************************)
ProcessedIsComplete(doc) ==
    \A x \in 1..Len(doc) :
        doc[x].processed =>
            /\ doc[x].last_processed_chunk = NumUnits(doc[x].ds_name) - 1
            /\ \A u \in 0..(NumUnits(doc[x].ds_name) - 1) :
                  <<doc[x].ds_name, u>> \in transcribed

C30_ProcessedImpliesComplete ==
    /\ ProcessedIsComplete(local_ledger)
    /\ ProcessedIsComplete(ledger_mirror)
    /\ ProcessedIsComplete(progress_file_data)

\* d1 is marked processed by a run that resumed it, in the file and in the
\* mirror
C30_Witness ==
    /\ aws
    /\ runs >= 2
    /\ HasRecord(start_doc, "d1")
    /\ ~RecordOf(start_doc, "d1").processed
    /\ RecordOf(local_ledger, "d1").processed
    /\ RecordOf(ledger_mirror, "d1").processed
    /\ RecordOf(ledger_mirror, "d1").last_processed_chunk = NumUnits("d1") - 1

(***************************************************************************)
(* C31  Ledger frame: update_dataset_progress and mark_dataset_as_processed *)
(* change only the active record, the one the latest check_dataset_progress *)
(* selected: the records of the other datasets, the number of records,     *)
(* their order and names and the selection stay as they were, in memory    *)
(* and in the progress file; update_dataset_progress leaves the processed  *)
(* flag as it was, mark_dataset_as_processed leaves lastProcessedIndex and *)
(* totalProcessedLength as they were, and check_dataset_progress with a    *)
(* name already seen changes no record and writes nothing.                 *)
(***************************************************************************)
\* the call of the step is update_dataset_progress or
\* mark_dataset_as_processed
MutatorCalled(name) == runs' = runs + 1 /\ arg'[1] = name

C31_LedgerFrame ==
    [][ /\ (MutatorCalled("update") \/ MutatorCalled("mark")) =>
              /\ current' = current
              /\ Len(progress_file_data') = Len(progress_file_data)
              /\ \A x \in 1..Len(progress_file_data) :
                    /\ progress_file_data'[x].ds_name = progress_file_data[x].ds_name
                    /\ x # current => progress_file_data'[x] = progress_file_data[x]
              /\ local_ledger' = progress_file_data'
              /\ (MutatorCalled("update") /\ current # 0) =>
                    progress_file_data'[current].processed
                      = progress_file_data[current].processed
              /\ (MutatorCalled("mark") /\ current # 0) =>
                    /\ progress_file_data'[current].last_processed_chunk
                         = progress_file_data[current].last_processed_chunk
                    /\ progress_file_data'[current].total_processed_length
                         = progress_file_data[current].total_processed_length
        /\ (MutatorCalled("check") /\ arg'[3]) =>
              /\ progress_file_data' = progress_file_data
              /\ local_ledger' = local_ledger
              /\ bucket' = bucket ]_vars

\* mark_dataset_as_processed has returned with d1 selected while the record
\* of d2, updated before, stands behind it
C31_Witness ==
    /\ pc = "api"
    /\ arg = <<"mark">>
    /\ Len(progress_file_data) = 2
    /\ current = 1
    /\ progress_file_data[1].processed
    /\ progress_file_data[1].last_processed_chunk = 1
    /\ progress_file_data[2].ds_name = "d2"
    /\ ~progress_file_data[2].processed
    /\ progress_file_data[2].last_processed_chunk = 0
    /\ local_ledger = progress_file_data

=============================================================================
